---- MODULE Spec2Model ----
(***************************************************************************)
(* A model of the 68000-family processor core of src/68080_Emu: the        *)
(* register/flag state, the memory accessors, the instruction decoder, the *)
(* execution families and the step controller (m68k_execute_cycle),        *)
(* together with the breakpoint interface and the drivers that call them.  *)
(***************************************************************************)
EXTENDS Integers, Sequences, FiniteSets, TLC

(***************************************************************************)
(* Bounds of the model.                                                    *)
(***************************************************************************)
\* size of the memory buffer handed to every call (mem_size)
MemSize == 40
\* address the probe programs and the test program are loaded at
program_start == 8
\* the drivers stop stepping once the cycle counter reaches this value
MaxCycles == 12
\* the main.c driver is followed for this many bus cycles
MaxRun == 120
\* breakpoints the debugger interface adds at most
MaxBp == 2
\* hits counted per breakpoint before the driver stops resuming
MaxHits == 2
\* the initial stack pointer the loader sets, inside the buffer
stack_top == 36
\* bus cycles the debugger session and the memory session are followed for
MaxSession == 6
MaxFp == 2              \* largest magnitude a floating-point register takes
MaxExt == 3             \* extension operations a session executes
MaxReset == 3           \* memory cycles of a session with resets
MaxMoveq == 2           \* instructions of a MOVEQ probe program

(***************************************************************************)
(* Machine arithmetic.  A uint32_t is held as the integer with the same    *)
(* 32-bit two's-complement pattern (0xFFFFFFFF is -1), so every value fits *)
(* 32-bit signed integers;  the operators below work on 16-bit halves and   *)
(* wrap as the C operators do.                                             *)
(***************************************************************************)
\* 2^8 and 2^16: the ranges of uint8_t and uint16_t
W8 == 2 ^ 8
W16 == 2 ^ 16

\* the pattern 0x80000000
MinInt32 == (-2147483647) - 1

RECURSIVE BitAnd(_, _)
\* the C operator & on patterns of at most 16 bits
BitAnd(x, y) ==
    IF x = 0 \/ y = 0 THEN 0
    ELSE (x % 2) * (y % 2) + 2 * BitAnd(x \div 2, y \div 2)

RECURSIVE BitOr(_, _)
\* the C operator | on patterns of at most 16 bits
BitOr(x, y) ==
    IF x = 0 THEN y
    ELSE IF y = 0 THEN x
    ELSE (IF x % 2 = 1 \/ y % 2 = 1 THEN 1 ELSE 0) + 2 * BitOr(x \div 2, y \div 2)

RECURSIVE BitXor(_, _)
\* the C operator ^ on patterns of at most 16 bits
BitXor(x, y) ==
    IF x = 0 THEN y
    ELSE IF y = 0 THEN x
    ELSE ((x + y) % 2) + 2 * BitXor(x \div 2, y \div 2)

\* (x >> n) on a non-negative integer
Shr(x, n) == x \div (2 ^ n)

\* the low and the high 16 bits of a 32-bit pattern
Lo16(x) == x % W16
Hi16(x) == ((x - Lo16(x)) \div W16) % W16

\* the 32-bit pattern with high half h and low half l
Make32(h, l) == (IF h >= 32768 THEN h - W16 ELSE h) * W16 + l

\* uint32_t addition, subtraction, complement and negation (mod 2^32)
Add32(x, y) ==
    LET l == Lo16(x) + Lo16(y)
        h == Hi16(x) + Hi16(y) + (l \div W16)
    IN  Make32(h % W16, l % W16)
Not32(x) == (-1) - x
Neg32(x) == Add32(Not32(x), 1)
Sub32(x, y) == Add32(x, Neg32(y))

\* the C operators &, | and ^ on 32-bit patterns
And32(x, y) == Make32(BitAnd(Hi16(x), Hi16(y)), BitAnd(Lo16(x), Lo16(y)))
Or32(x, y) == Make32(BitOr(Hi16(x), Hi16(y)), BitOr(Lo16(x), Lo16(y)))
Xor32(x, y) == Make32(BitXor(Hi16(x), Hi16(y)), BitXor(Lo16(x), Lo16(y)))

\* x < y and x >= y as uint32_t
ULess(x, y) == IF (x < 0) = (y < 0) THEN x < y ELSE y < 0
UGeq(x, y) == ~ULess(x, y)

\* x << 1, x >> 1 as uint32_t, and (int32_t)x >> 1
Shl1(x) == Make32((Hi16(x) * 2 + (Lo16(x) \div 32768)) % W16, (Lo16(x) * 2) % W16)
Shr1(x) == Make32(Hi16(x) \div 2, (Lo16(x) \div 2) + (Hi16(x) % 2) * 32768)
Asr1(x) == Make32((Hi16(x) \div 2) + (IF x < 0 THEN 32768 ELSE 0),
                  (Lo16(x) \div 2) + (Hi16(x) % 2) * 32768)

\* the 32-bit product of two uint16_t values
Mul16(x, y) ==
    LET p1 == x * (y \div 256)
        p0 == x * (y % 256)
        low == (p1 % 256) * 256 + p0
    IN  Make32(((p1 \div 256) + (low \div W16)) % W16, low % W16)

\* the four bytes of a 32-bit pattern, least significant first
Bytes32_little(x) ==
    << Lo16(x) % 256, Lo16(x) \div 256, Hi16(x) % 256, Hi16(x) \div 256 >>

\* the four bytes of a 32-bit pattern, most significant first
Bytes32(x) == << Hi16(x) \div 256, Hi16(x) % 256, Lo16(x) \div 256, Lo16(x) % 256 >>

RECURSIVE UDivSteps(_, _, _, _)
\* long division of a byte sequence by a uint16_t divisor s # 0:
\* [q, r], q the quotient's low 16 bits
UDivSteps(bytes, s, q, r) ==
    IF bytes = << >> THEN [q |-> q, r |-> r]
    ELSE LET n == r * 256 + Head(bytes)
         IN  UDivSteps(Tail(bytes), s, (q * 256 + (n \div s)) % W16, n % s)

\* (uint16_t)(x / s) and (uint16_t)(x % s) for uint32_t x
UDiv16(x, s) == UDivSteps(Bytes32(x), s, 0, 0)

\* (uint8_t) of x: the low byte without its sign
ZeroExt8(x) == x % W8

\* (int8_t) of the low byte of x, as a mathematical integer
SInt8(x) == IF x % W8 >= 128 THEN (x % W8) - W8 ELSE x % W8

\* (int16_t) of the low word of x, as a mathematical integer
SInt16(x) == IF x % W16 >= 32768 THEN (x % W16) - W16 ELSE x % W16

\* a 16-bit counter kept as a mathematical integer, without the wrap
U16_unwrapped(x) == x - W16

\* conversion of a mathematical integer to uint16_t
U16(x) == x % W16

(***************************************************************************)
(* m68k_cpu.h: status register bits, operand sizes, operation tags.        *)
(***************************************************************************)
SR_CARRY == 1
SR_OVERFLOW == 2
SR_ZERO == 4
SR_NEGATIVE == 8
SR_EXTEND == 16
SR_SUPERVISOR == 8192

SIZE_BYTE == 1
SIZE_WORD == 2
SIZE_LONG == 4

\* the enumerators of OpCode in declaration order; a tag is its 0-based index
OpCode ==
    << "OP_NOP",
       "OP_MOVE", "OP_MOVEA", "OP_MOVEM", "OP_MOVEP", "OP_MOVEQ",
       "OP_EXG", "OP_SWAP", "OP_LEA", "OP_PEA",
       "OP_LINK", "OP_UNLK",
       "OP_ADD", "OP_ADDA", "OP_ADDI", "OP_ADDQ", "OP_ADDX",
       "OP_SUB", "OP_SUBA", "OP_SUBI", "OP_SUBQ", "OP_SUBX",
       "OP_MULS", "OP_MULU", "OP_DIVS", "OP_DIVU",
       "OP_NEG", "OP_NEGX", "OP_CLR", "OP_EXT",
       "OP_AND", "OP_ANDI", "OP_OR", "OP_ORI", "OP_EOR", "OP_EORI",
       "OP_NOT",
       "OP_ASL", "OP_ASR", "OP_LSL", "OP_LSR",
       "OP_ROL", "OP_ROR", "OP_ROXL", "OP_ROXR",
       "OP_BCHG", "OP_BCLR", "OP_BSET", "OP_BTST",
       "OP_CMP", "OP_CMPA", "OP_CMPI", "OP_CMPM",
       "OP_TST",
       "OP_BRA", "OP_BSR",
       "OP_BCC", "OP_BCS", "OP_BEQ", "OP_BNE",
       "OP_BGE", "OP_BGT", "OP_BHI", "OP_BLE",
       "OP_BLS", "OP_BLT", "OP_BMI", "OP_BPL",
       "OP_BVC", "OP_BVS",
       "OP_SCC", "OP_SCS", "OP_SEQ", "OP_SNE",
       "OP_SGE", "OP_SGT", "OP_SHI", "OP_SLE",
       "OP_SLS", "OP_SLT", "OP_SMI", "OP_SPL",
       "OP_SVC", "OP_SVS", "OP_ST", "OP_SF",
       "OP_JMP", "OP_JSR", "OP_RTS", "OP_RTR", "OP_RTE",
       "OP_DBCC", "OP_DBCS", "OP_DBEQ", "OP_DBNE",
       "OP_DBGE", "OP_DBGT", "OP_DBHI", "OP_DBLE",
       "OP_DBLS", "OP_DBLT", "OP_DBMI", "OP_DBPL",
       "OP_DBVC", "OP_DBVS", "OP_DBT", "OP_DBF",
       "OP_TRAP", "OP_TRAPV", "OP_CHK",
       "OP_RESET", "OP_STOP",
       "OP_ANDI_SR", "OP_EORI_SR", "OP_ORI_SR",
       "OP_ANDI_CCR", "OP_EORI_CCR", "OP_ORI_CCR",
       "OP_MOVE_SR", "OP_MOVE_CCR", "OP_MOVE_USP",
       "OP_TAS", "OP_NBCD", "OP_ABCD", "OP_SBCD",
       "OP_MOVEC", "OP_MOVES", "OP_RTD", "OP_BKPT",
       "OP_BFCHG", "OP_BFCLR", "OP_BFEXTS", "OP_BFEXTU",
       "OP_BFFFO", "OP_BFINS", "OP_BFSET", "OP_BFTST",
       "OP_CALLM", "OP_CAS", "OP_CAS2", "OP_CMP2",
       "OP_DIVSL", "OP_DIVUL", "OP_EXTB",
       "OP_PACK", "OP_UNPK",
       "OP_VADD", "OP_VSUB", "OP_VMUL", "OP_VDIV",
       "OP_VAND", "OP_VOR", "OP_VXOR", "OP_VNOT",
       "OP_VLOAD", "OP_VSTORE", "OP_VMOVE",
       "OP_VDOT", "OP_VCROSS", "OP_VABS", "OP_VSQRT",
       "OP_VMIN", "OP_VMAX", "OP_VSUM",
       "OP_ADD64", "OP_SUB64", "OP_MUL64", "OP_DIV64",
       "OP_MOVE64", "OP_CMP64",
       "OP_FMOVE", "OP_FADD", "OP_FSUB", "OP_FMUL", "OP_FDIV",
       "OP_FSQRT", "OP_FABS", "OP_FNEG", "OP_FCMP", "OP_FTST",
       "OP_FSIN", "OP_FCOS", "OP_FTAN",
       "OP_ILLEGAL" >>

\* the function from the elements of a sequence to their 0-based positions
IndexOf(seq) ==
    [n \in {seq[i] : i \in DOMAIN seq} |-> (CHOOSE i \in DOMAIN seq : seq[i] = n) - 1]

\* the table from enumerator name to tag value
TagOf == IndexOf(OpCode)

\* the tag value of an enumerator
OP(n) == TagOf[n]

\* the enumerator name of a tag value
OpName(t) == OpCode[t + 1]

\* OP_COUNT, the enumerator after the last tag
OP_COUNT == Len(OpCode)

(***************************************************************************)
(* m68k_decode.c: the decoder, a function of the 16-bit word.              *)
(***************************************************************************)
\* line 0: bit manipulation, MOVEP, immediates
DecodeLine0(opcode) ==
    IF BitAnd(opcode, \hF1C0) = \h0100
    THEN LET type == Shr(opcode, 6) % 4
         IN  IF type = 0 THEN OP("OP_BTST")
             ELSE IF type = 1 THEN OP("OP_BCHG")
             ELSE IF type = 2 THEN OP("OP_BCLR")
             ELSE OP("OP_BSET")
    ELSE IF BitAnd(opcode, \hFFC0) = \h0800
    THEN OP("OP_BTST")
    ELSE IF BitAnd(opcode, \hFF00) = \h0000
    THEN LET operation == Shr(opcode, 9) % 8
         IN  CASE operation = 0 -> OP("OP_ORI")
               [] operation = 1 -> OP("OP_ANDI")
               [] operation = 2 -> OP("OP_SUBI")
               [] operation = 3 -> OP("OP_ADDI")
               [] operation = 5 -> OP("OP_EORI")
               [] operation = 6 -> OP("OP_CMPI")
               [] OTHER -> OP("OP_ILLEGAL")
    ELSE IF BitAnd(opcode, \hF138) = \h0108
    THEN OP("OP_MOVEP")
    ELSE OP("OP_ILLEGAL")

\* line 4: miscellaneous; the tests are tried in the order of the source
DecodeLine4(opcode) ==
    IF BitAnd(opcode, \hFFC0) = \h4E40 THEN OP("OP_TRAP")
    ELSE IF opcode = \h4E70 THEN OP("OP_RESET")
    ELSE IF opcode = \h4E71 THEN OP("OP_NOP")
    ELSE IF opcode = \h4E72 THEN OP("OP_STOP")
    ELSE IF opcode = \h4E73 THEN OP("OP_RTE")
    ELSE IF opcode = \h4E75 THEN OP("OP_RTS")
    ELSE IF opcode = \h4E76 THEN OP("OP_TRAPV")
    ELSE IF opcode = \h4E77 THEN OP("OP_RTR")
    ELSE IF BitAnd(opcode, \hFFF0) = \h4E50 THEN OP("OP_LINK")
    ELSE IF BitAnd(opcode, \hFFF8) = \h4E58 THEN OP("OP_UNLK")
    ELSE IF BitAnd(opcode, \hFFC0) = \h4E80 THEN OP("OP_JSR")
    ELSE IF BitAnd(opcode, \hFFC0) = \h4EC0 THEN OP("OP_JMP")
    ELSE IF BitAnd(opcode, \hFF00) = \h4000
    THEN LET type == Shr(opcode, 9) % 8
         IN  CASE type = 0 -> OP("OP_NEGX")
               [] type = 2 -> OP("OP_CLR")
               [] type = 4 -> OP("OP_NEG")
               [] type = 6 -> OP("OP_NOT")
               [] OTHER -> OP("OP_ILLEGAL")
    ELSE IF BitAnd(opcode, \hFB80) = \h4880 THEN OP("OP_EXT")
    ELSE IF BitAnd(opcode, \hFFC0) = \h4AC0 THEN OP("OP_TAS")
    ELSE IF BitAnd(opcode, \hFF00) = \h4A00 THEN OP("OP_TST")
    ELSE IF BitAnd(opcode, \hFFC0) = \h4800 THEN OP("OP_NBCD")
    ELSE IF BitAnd(opcode, \hFFF8) = \h4840 THEN OP("OP_SWAP")
    ELSE IF BitAnd(opcode, \hFFF8) = \h4848 THEN OP("OP_BKPT")
    ELSE IF BitAnd(opcode, \hFFC0) = \h4840 THEN OP("OP_PEA")
    ELSE IF BitAnd(opcode, \hFB80) = \h4880 THEN OP("OP_MOVEM")
    ELSE IF BitAnd(opcode, \hFFC0) = \h44C0 THEN OP("OP_MOVE_CCR")
    ELSE IF BitAnd(opcode, \hFFC0) = \h46C0 THEN OP("OP_MOVE_SR")
    ELSE IF BitAnd(opcode, \hFF00) = \h4200 THEN OP("OP_CLR")
    ELSE IF BitAnd(opcode, \hF1C0) = \h41C0 THEN OP("OP_LEA")
    ELSE IF BitAnd(opcode, \hF1C0) = \h4180 THEN OP("OP_CHK")
    ELSE OP("OP_ILLEGAL")

\* line 5 with the condition field taken from bits 15-8 without its mask
DecodeLine5_unmasked(opcode) ==
    IF BitAnd(opcode, \hF0C0) = \h50C0
    THEN IF BitAnd(opcode, \h0038) = \h0008
         THEN OP("OP_DBCC") + Shr(opcode, 8)
         ELSE OP("OP_SCC") + Shr(opcode, 8)
    ELSE IF Shr(opcode, 8) % 2 = 1 THEN OP("OP_SUBQ") ELSE OP("OP_ADDQ")

\* line 5: ADDQ, SUBQ, Scc, DBcc
DecodeLine5(opcode) ==
    IF BitAnd(opcode, \hF0C0) = \h50C0
    THEN IF BitAnd(opcode, \h0038) = \h0008
         THEN OP("OP_DBCC") + (Shr(opcode, 8) % 16)
         ELSE OP("OP_SCC") + (Shr(opcode, 8) % 16)
    ELSE IF Shr(opcode, 8) % 2 = 1 THEN OP("OP_SUBQ") ELSE OP("OP_ADDQ")

\* line 6: Bcc, BSR, BRA
DecodeLine6(opcode) ==
    LET cond == Shr(opcode, 8) % 16
    IN  IF cond = 0 THEN OP("OP_BRA")
        ELSE IF cond = 1 THEN OP("OP_BSR")
        ELSE OP("OP_BCC") + (cond - 2)

\* line E: shifts and rotates
DecodeLineE(opcode) ==
    IF BitAnd(opcode, \h0018) = \h0000
    THEN LET type == Shr(opcode, 3) % 4
             dir == Shr(opcode, 8) % 2
         IN  CASE type = 0 -> IF dir = 1 THEN OP("OP_ASR") ELSE OP("OP_ASL")
               [] type = 1 -> IF dir = 1 THEN OP("OP_LSR") ELSE OP("OP_LSL")
               [] type = 2 -> IF dir = 1 THEN OP("OP_ROXR") ELSE OP("OP_ROXL")
               [] type = 3 -> IF dir = 1 THEN OP("OP_ROR") ELSE OP("OP_ROL")
    ELSE OP("OP_ILLEGAL")

\* the operation tag m68k_decode_instruction stores in *op for a 16-bit word
m68k_decode_instruction(opcode) ==
    LET hi4 == Shr(opcode, 12) % 16
    IN  CASE hi4 = 0 -> DecodeLine0(opcode)
          [] hi4 \in {1, 2, 3} ->
                IF BitAnd(opcode, \h01C0) = \h0040
                THEN OP("OP_MOVEA") ELSE OP("OP_MOVE")
          [] hi4 = 4 -> DecodeLine4(opcode)
          [] hi4 = 5 -> DecodeLine5(opcode)
          [] hi4 = 6 -> DecodeLine6(opcode)
          [] hi4 = 7 ->
                IF BitAnd(opcode, \h0100) = \h0000 THEN OP("OP_MOVEQ") ELSE OP("OP_ILLEGAL")
          [] hi4 = 8 ->
                IF BitAnd(opcode, \h01F0) = \h0100
                THEN OP("OP_SBCD")
                ELSE IF BitAnd(opcode, \h01C0) = \h01C0
                THEN (IF Shr(opcode, 8) % 2 = 1 THEN OP("OP_DIVS") ELSE OP("OP_DIVU"))
                ELSE OP("OP_OR")
          [] hi4 = 9 ->
                IF BitAnd(opcode, \hF130) = \h9100
                THEN OP("OP_SUBX")
                ELSE IF BitAnd(opcode, \h00C0) = \h00C0
                THEN OP("OP_SUBA")
                ELSE OP("OP_SUB")
          [] hi4 = 10 -> OP("OP_ILLEGAL")
          [] hi4 = 11 ->
                IF BitAnd(opcode, \h0100) = \h0100
                THEN (IF BitAnd(opcode, \h0038) = \h0008 THEN OP("OP_CMPM") ELSE OP("OP_EOR"))
                ELSE (IF BitAnd(opcode, \h00C0) = \h00C0 THEN OP("OP_CMPA") ELSE OP("OP_CMP"))
          [] hi4 = 12 ->
                IF BitAnd(opcode, \h01F0) = \h0100
                THEN OP("OP_ABCD")
                ELSE IF BitAnd(opcode, \hF130) = \hC100
                THEN OP("OP_EXG")
                ELSE IF BitAnd(opcode, \h01C0) = \h01C0
                THEN (IF Shr(opcode, 8) % 2 = 1 THEN OP("OP_MULS") ELSE OP("OP_MULU"))
                ELSE OP("OP_AND")
          [] hi4 = 13 ->
                IF BitAnd(opcode, \hF130) = \hD100
                THEN OP("OP_ADDX")
                ELSE IF BitAnd(opcode, \h00C0) = \h00C0
                THEN OP("OP_ADDA")
                ELSE OP("OP_ADD")
          [] hi4 = 14 -> DecodeLineE(opcode)
          [] hi4 = 15 -> OP("OP_ILLEGAL")

(***************************************************************************)
(* m68k_cpu_extended.c: construction, flags, condition test.               *)
(***************************************************************************)
\* the processor after m68k_init (memset to zero, then the reset defaults);
\* bus_data and the cache arrays carry no execution semantics and are left out.
\* fp holds apollo.fp[0..7], a double as the integer it equals (0.0 and -0.0
\* are both 0: the handlers only compare them, and they compare equal);
\* v holds apollo.v[0..15].
m68k_init ==
    [ d |-> [i \in 0..7 |-> 0],
      a |-> [i \in 0..7 |-> 0],
      fp |-> [i \in 0..7 |-> 0],
      v |-> [i \in 0..15 |-> 0],
      pc |-> 0,
      sr |-> SR_SUPERVISOR,
      usp |-> 0,
      ssp |-> 65536,
      apollo_mode |-> TRUE,
      halted |-> FALSE,
      trace_mode |-> FALSE,
      cycle_count |-> 0,
      instruction_count |-> 0,
      bus_address |-> 0,
      bus_active |-> FALSE,
      max_breakpoints |-> 32,
      breakpoint_hit |-> FALSE,
      breakpoint_addr |-> 0,
      vbr |-> 0,
      branch_count |-> 0,
      branch_taken |-> 0,
      load_count |-> 0,
      store_count |-> 0 ]

\* m68k_reset without the saved fields written back: m68k_init alone
m68k_reset_all(c) == m68k_init

\* m68k_reset: m68k_init, keeping the counters, the extension flag and the
\* breakpoint array (the array itself is the variable breakpoints)
m68k_reset(c) ==
    [ m68k_init EXCEPT !.cycle_count = c.cycle_count,
                       !.instruction_count = c.instruction_count,
                       !.apollo_mode = c.apollo_mode,
                       !.max_breakpoints = c.max_breakpoints ]

\* m68k_enable_apollo
m68k_enable_apollo(c, enable) == [c EXCEPT !.apollo_mode = enable]

\* (cpu->sr & flag) != 0
m68k_get_flag(c, flag) == BitAnd(c.sr, flag) # 0

\* a flag routine that can only raise a flag: cpu->sr |= flag whatever the
\* value
m68k_set_flag_raising(c, flag, value) == [c EXCEPT !.sr = BitOr(c.sr, flag)]

\* cpu->sr |= flag, or cpu->sr &= ~flag
m68k_set_flag(c, flag, value) ==
    IF value THEN [c EXCEPT !.sr = BitOr(c.sr, flag)]
    ELSE [c EXCEPT !.sr = c.sr - BitAnd(c.sr, flag)]

\* Z and N from the result truncated to the operand size
m68k_set_flags(c, result, size) ==
    LET is_zero == CASE size = SIZE_BYTE -> result % W8 = 0
                     [] size = SIZE_WORD -> result % W16 = 0
                     [] size = SIZE_LONG -> result = 0
                     [] OTHER -> FALSE
        is_neg == CASE size = SIZE_BYTE -> SInt8(result) < 0
                    [] size = SIZE_WORD -> SInt16(result) < 0
                    [] size = SIZE_LONG -> result < 0
                    [] OTHER -> FALSE
    IN  m68k_set_flag(m68k_set_flag(c, SR_ZERO, is_zero), SR_NEGATIVE, is_neg)

\* m68k_test_condition with the signed conditions GE, LT, GT, LE reading the
\* negative flag alone
m68k_test_condition_unsigned(c, condition) ==
    LET cc == m68k_get_flag(c, SR_CARRY)
        v == m68k_get_flag(c, SR_OVERFLOW)
        z == m68k_get_flag(c, SR_ZERO)
        n == m68k_get_flag(c, SR_NEGATIVE)
    IN  CASE condition = 0 -> TRUE
          [] condition = 1 -> FALSE
          [] condition = 2 -> ~cc /\ ~z
          [] condition = 3 -> cc \/ z
          [] condition = 4 -> ~cc
          [] condition = 5 -> cc
          [] condition = 6 -> ~z
          [] condition = 7 -> z
          [] condition = 8 -> ~v
          [] condition = 9 -> v
          [] condition = 10 -> ~n
          [] condition = 11 -> n
          [] condition = 12 -> ~n
          [] condition = 13 -> n
          [] condition = 14 -> ~z /\ ~n
          [] condition = 15 -> z \/ n
          [] OTHER -> FALSE

\* the 16-case condition test on C, V, Z, N
m68k_test_condition(c, condition) ==
    LET cc == m68k_get_flag(c, SR_CARRY)
        v == m68k_get_flag(c, SR_OVERFLOW)
        z == m68k_get_flag(c, SR_ZERO)
        n == m68k_get_flag(c, SR_NEGATIVE)
    IN  CASE condition = 0 -> TRUE
          [] condition = 1 -> FALSE
          [] condition = 2 -> ~cc /\ ~z
          [] condition = 3 -> cc \/ z
          [] condition = 4 -> ~cc
          [] condition = 5 -> cc
          [] condition = 6 -> ~z
          [] condition = 7 -> z
          [] condition = 8 -> ~v
          [] condition = 9 -> v
          [] condition = 10 -> ~n
          [] condition = 11 -> n
          [] condition = 12 -> (n /\ v) \/ (~n /\ ~v)
          [] condition = 13 -> (n /\ ~v) \/ (~n /\ v)
          [] condition = 14 -> ~z /\ ((n /\ v) \/ (~n /\ ~v))
          [] condition = 15 -> z \/ (n /\ ~v) \/ (~n /\ v)
          [] OTHER -> FALSE

\* the most significant bit of a value at an operand size
Msb(x, size) ==
    CASE size = SIZE_BYTE -> x % W8 >= 128
      [] size = SIZE_WORD -> x % W16 >= 32768
      [] OTHER -> x < 0

\* the add flag routine (declared in m68k_cpu.h, defined nowhere under src/):
\* Z/N of the sized result, C = X = unsigned carry out, V = signed overflow
m68k_set_flags_add(c, src, dst, result, size) ==
    LET sm == Msb(src, size)
        dm == Msb(dst, size)
        rm == Msb(result, size)
        carry == (sm /\ dm) \/ (~rm /\ dm) \/ (sm /\ ~rm)
        ovf == (sm /\ dm /\ ~rm) \/ (~sm /\ ~dm /\ rm)
        c1 == m68k_set_flags(c, result, size)
        c2 == m68k_set_flag(c1, SR_CARRY, carry)
        c3 == m68k_set_flag(c2, SR_EXTEND, carry)
    IN  m68k_set_flag(c3, SR_OVERFLOW, ovf)

\* the subtract flag routine (declared in m68k_cpu.h, defined nowhere under
\* src/): Z/N of the sized result, C = X = unsigned borrow, V = signed overflow
m68k_set_flags_sub(c, src, dst, result, size) ==
    LET sm == Msb(src, size)
        dm == Msb(dst, size)
        rm == Msb(result, size)
        borrow == (sm /\ ~dm) \/ (rm /\ ~dm) \/ (sm /\ rm)
        ovf == (~sm /\ dm /\ ~rm) \/ (sm /\ ~dm /\ rm)
        c1 == m68k_set_flags(c, result, size)
        c2 == m68k_set_flag(c1, SR_CARRY, borrow)
        c3 == m68k_set_flag(c2, SR_EXTEND, borrow)
    IN  m68k_set_flag(c3, SR_OVERFLOW, ovf)

(***************************************************************************)
(* m68k_cpu.c: instruction fetch and the sized memory accessors.  Each     *)
(* returns the processor as the call leaves it beside its result.          *)
(***************************************************************************)
\* addr & ~0x7F, the start of the 128-byte bus line
BusLine(addr) == addr - (addr % 128)

\* m68k_fetch_word with the program counter advanced on the out-of-bounds
\* path as well (a bounds test placed after the increment)
m68k_fetch_word_advancing(c, mem) ==
    IF UGeq(c.pc, MemSize - 1)
    THEN [cpu |-> [c EXCEPT !.halted = TRUE, !.pc = Add32(c.pc, 2)], val |-> 0]
    ELSE [cpu |-> [c EXCEPT !.bus_address = BusLine(c.pc),
                            !.bus_active = TRUE,
                            !.pc = Add32(c.pc, 2),
                            !.cycle_count = c.cycle_count + 1],
          val |-> mem[c.pc] * 256 + mem[c.pc + 1]]

\* m68k_fetch_word: [cpu, val]; out of bounds halts and returns 0
m68k_fetch_word(c, mem) ==
    IF UGeq(c.pc, MemSize - 1)
    THEN [cpu |-> [c EXCEPT !.halted = TRUE], val |-> 0]
    ELSE [cpu |-> [c EXCEPT !.bus_address = BusLine(c.pc),
                            !.bus_active = TRUE,
                            !.pc = Add32(c.pc, 2),
                            !.cycle_count = c.cycle_count + 1],
          val |-> mem[c.pc] * 256 + mem[c.pc + 1]]

\* m68k_fetch_long: two word fetches, high word first
m68k_fetch_long(c, mem) ==
    LET high == m68k_fetch_word(c, mem)
        low == m68k_fetch_word(high.cpu, mem)
    IN  [cpu |-> low.cpu, val |-> Make32(high.val, low.val)]

\* m68k_read_memory: [cpu, val]
m68k_read_memory(c, mem, addr, size) ==
    IF UGeq(addr, MemSize)
    THEN [cpu |-> c, val |-> 0]
    ELSE LET value ==
                 CASE size = SIZE_BYTE -> mem[addr]
                   [] size = SIZE_WORD ->
                        IF addr + 1 < MemSize
                        THEN mem[addr] * 256 + mem[addr + 1] ELSE 0
                   [] size = SIZE_LONG ->
                        IF addr + 3 < MemSize
                        THEN Make32(mem[addr] * 256 + mem[addr + 1],
                                    mem[addr + 2] * 256 + mem[addr + 3])
                        ELSE 0
                   [] OTHER -> 0
         IN  [cpu |-> [c EXCEPT !.bus_address = BusLine(addr),
                                !.bus_active = TRUE,
                                !.load_count = c.load_count + 1,
                                !.cycle_count = c.cycle_count + 1],
              val |-> value]

\* a store that writes the bytes of the access that are inside the buffer
\* and drops the others (a per-byte bounds test)
StoreBytes_clipped(mem, addr, value, size) ==
    LET n == IF size \in {SIZE_BYTE, SIZE_WORD, SIZE_LONG} THEN size ELSE 0
        bytes == SubSeq(Bytes32(value), 5 - n, 4)
    IN  [x \in DOMAIN mem |->
            IF x >= addr /\ x < addr + n THEN bytes[x - addr + 1] ELSE mem[x]]

\* the bytes m68k_write_memory stores, as the memory after the call
StoreBytes(mem, addr, value, size) ==
    CASE size = SIZE_BYTE -> [mem EXCEPT ![addr] = value % 256]
      [] size = SIZE_WORD ->
           IF addr + 1 < MemSize
           THEN [mem EXCEPT ![addr] = Bytes32(value)[3],
                            ![addr + 1] = Bytes32(value)[4]]
           ELSE mem
      [] size = SIZE_LONG ->
           IF addr + 3 < MemSize
           THEN [mem EXCEPT ![addr] = Bytes32(value)[1],
                            ![addr + 1] = Bytes32(value)[2],
                            ![addr + 2] = Bytes32(value)[3],
                            ![addr + 3] = Bytes32(value)[4]]
           ELSE mem
      [] OTHER -> mem

\* m68k_write_memory: [cpu, memory]
m68k_write_memory(c, mem, addr, value, size) ==
    IF UGeq(addr, MemSize)
    THEN [cpu |-> c, memory |-> mem]
    ELSE [cpu |-> [c EXCEPT !.bus_address = BusLine(addr),
                            !.bus_active = TRUE,
                            !.store_count = c.store_count + 1,
                            !.cycle_count = c.cycle_count + 1],
          memory |-> StoreBytes(mem, addr, value, size)]

(***************************************************************************)
(* m68k_execute2.c: branch/control-transfer and special/system families.   *)
(* A handler maps the processor and memory to [cpu, memory] after it.      *)
(***************************************************************************)
\* tags between two enumerators, both included
TagRange(lo, hi) == OP(lo)..OP(hi)

\* the processor with data register r set
SetD(c, r, v) == [c EXCEPT !.d[r] = v]

\* the processor with address register r set
SetA(c, r, v) == [c EXCEPT !.a[r] = v]

\* cpu->pc += displacement
AddPc(c, displacement) == [c EXCEPT !.pc = Add32(c.pc, displacement)]

\* the displacement BRA, BSR and Bcc branch by: the local is an int8_t, so a
\* fetched extension word is narrowed to its low byte when it is assigned
BranchDisplacement(c, mem, opcode) ==
    LET displacement == SInt8(opcode % 256)
    IN  IF displacement = 0
        THEN LET f == m68k_fetch_word(c, mem)
             IN  [cpu |-> f.cpu, val |-> SInt8(SInt16(f.val))]
        ELSE [cpu |-> c, val |-> displacement]

\* push a return address: a7 -= 4, then a long store at a7
PushLong(c, mem, value) ==
    LET c1 == SetA(c, 7, Sub32(c.a[7], 4))
    IN  m68k_write_memory(c1, mem, c1.a[7], value, SIZE_LONG)

\* the value JMP/JSR compute for their operand: [cpu, val, ok]
JumpTarget(c, mem, opcode) ==
    LET mode == Shr(opcode, 3) % 8
        reg == opcode % 8
    IN  IF mode = 2 THEN [cpu |-> c, val |-> c.a[reg], ok |-> TRUE]
        ELSE IF mode = 7 /\ reg = 0
        THEN LET f == m68k_fetch_word(c, mem)
             IN  [cpu |-> f.cpu, val |-> f.val, ok |-> TRUE]
        ELSE IF mode = 7 /\ reg = 1
        THEN LET f == m68k_fetch_long(c, mem)
             IN  [cpu |-> f.cpu, val |-> f.val, ok |-> TRUE]
        ELSE [cpu |-> c, val |-> 0, ok |-> FALSE]

\* the tags m68k_execute_branches has a case for
BranchCases ==
    TagRange("OP_BRA", "OP_BSR") \cup TagRange("OP_BCC", "OP_BVS")
    \cup TagRange("OP_DBCC", "OP_DBF") \cup TagRange("OP_JMP", "OP_RTE")
    \cup TagRange("OP_SCC", "OP_SF")

\* m68k_execute_branches
m68k_execute_branches(c, mem, op, opcode) ==
    LET reg == opcode % 8
        condition == Shr(opcode, 8) % 16
    IN
    CASE op = OP("OP_BRA") ->
           LET b == BranchDisplacement(c, mem, opcode)
               c1 == AddPc(b.cpu, b.val)
           IN  [cpu |-> [c1 EXCEPT !.branch_count = @ + 1, !.branch_taken = @ + 1],
                memory |-> mem]
      [] op = OP("OP_BSR") ->
           LET b == BranchDisplacement(c, mem, opcode)
               w == PushLong(b.cpu, mem, b.cpu.pc)
               c1 == AddPc(w.cpu, b.val)
           IN  [cpu |-> [c1 EXCEPT !.branch_count = @ + 1, !.branch_taken = @ + 1],
                memory |-> w.memory]
      [] op \in TagRange("OP_BCC", "OP_BVS") ->
           LET c1 == [c EXCEPT !.branch_count = @ + 1]
           IN  IF m68k_test_condition(c1, condition)
               THEN LET b == BranchDisplacement(c1, mem, opcode)
                        c2 == AddPc(b.cpu, b.val)
                    IN  [cpu |-> [c2 EXCEPT !.branch_taken = @ + 1], memory |-> mem]
               ELSE [cpu |-> c1, memory |-> mem]
      [] op \in TagRange("OP_DBCC", "OP_DBF") ->
           LET f == m68k_fetch_word(c, mem)
               displacement == SInt16(f.val)
               c1 == f.cpu
           IN  IF ~m68k_test_condition(c1, condition)
               THEN LET counter == U16((c1.d[reg] % W16) - 1 + W16)
                        c2 == SetD(c1, reg, (c1.d[reg] - (c1.d[reg] % W16)) + counter)
                    IN  IF counter # 65535
                        THEN [cpu |-> AddPc(c2, displacement), memory |-> mem]
                        ELSE [cpu |-> c2, memory |-> mem]
               ELSE [cpu |-> c1, memory |-> mem]
      [] op = OP("OP_JMP") ->
           LET t == JumpTarget(c, mem, opcode)
           IN  IF t.ok THEN [cpu |-> [t.cpu EXCEPT !.pc = t.val], memory |-> mem]
               ELSE [cpu |-> c, memory |-> mem]
      [] op = OP("OP_JSR") ->
           LET t == JumpTarget(c, mem, opcode)
               w == PushLong(t.cpu, mem, t.cpu.pc)
           IN  [cpu |-> [w.cpu EXCEPT !.pc = t.val], memory |-> w.memory]
      [] op = OP("OP_RTS") ->
           LET r == m68k_read_memory(c, mem, c.a[7], SIZE_LONG)
               c1 == SetA(r.cpu, 7, Add32(r.cpu.a[7], 4))
           IN  [cpu |-> [c1 EXCEPT !.pc = r.val], memory |-> mem]
      [] op = OP("OP_RTR") ->
           LET r1 == m68k_read_memory(c, mem, c.a[7], SIZE_WORD)
               c1 == SetA(r1.cpu, 7, Add32(r1.cpu.a[7], 2))
               c2 == [c1 EXCEPT !.sr = (c1.sr - (c1.sr % 256)) + (r1.val % 256)]
               r2 == m68k_read_memory(c2, mem, c2.a[7], SIZE_LONG)
               c3 == SetA(r2.cpu, 7, Add32(r2.cpu.a[7], 4))
           IN  [cpu |-> [c3 EXCEPT !.pc = r2.val], memory |-> mem]
      [] op = OP("OP_RTE") ->
           IF BitAnd(c.sr, SR_SUPERVISOR) = 0
           THEN [cpu |-> [c EXCEPT !.halted = TRUE], memory |-> mem]
           ELSE LET r1 == m68k_read_memory(c, mem, c.a[7], SIZE_WORD)
                    c1 == [r1.cpu EXCEPT !.sr = r1.val]
                    c2 == SetA(c1, 7, Add32(c1.a[7], 2))
                    r2 == m68k_read_memory(c2, mem, c2.a[7], SIZE_LONG)
                    c3 == SetA(r2.cpu, 7, Add32(r2.cpu.a[7], 4))
                IN  [cpu |-> [c3 EXCEPT !.pc = r2.val], memory |-> mem]
      [] op \in TagRange("OP_SCC", "OP_SF") ->
           LET base == c.d[reg] - (c.d[reg] % 256)
           IN  IF m68k_test_condition(c, condition)
               THEN [cpu |-> SetD(c, reg, base + 255), memory |-> mem]
               ELSE [cpu |-> SetD(c, reg, base), memory |-> mem]
      [] OTHER -> [cpu |-> c, memory |-> mem]

\* the tags m68k_execute_special has a case for
SpecialCases ==
    { OP(n) : n \in { "OP_LEA", "OP_PEA", "OP_LINK", "OP_UNLK", "OP_SWAP",
                      "OP_EXT", "OP_EXG", "OP_TRAP", "OP_TRAPV", "OP_CHK",
                      "OP_TAS", "OP_RESET", "OP_STOP" } }

\* clear C and V, as the logic-style handlers do after m68k_set_flags
ClearCV(c) == m68k_set_flag(m68k_set_flag(c, SR_CARRY, FALSE), SR_OVERFLOW, FALSE)

\* m68k_execute_special
m68k_execute_special(c, mem, op, opcode) ==
    LET reg == opcode % 8
        mode == Shr(opcode, 3) % 8
        reg_dst == Shr(opcode, 9) % 8
        same == [cpu |-> c, memory |-> mem]
    IN
    CASE op = OP("OP_LEA") ->
           IF mode = 2 THEN [cpu |-> SetA(c, reg_dst, c.a[reg]), memory |-> mem]
           ELSE IF mode = 5
           THEN LET f == m68k_fetch_word(c, mem)
                IN  [cpu |-> SetA(f.cpu, reg_dst, Add32(f.cpu.a[reg], SInt16(f.val))),
                     memory |-> mem]
           ELSE IF mode = 7 /\ reg = 0
           THEN LET f == m68k_fetch_word(c, mem)
                IN  [cpu |-> SetA(f.cpu, reg_dst, f.val), memory |-> mem]
           ELSE IF mode = 7 /\ reg = 1
           THEN LET f == m68k_fetch_long(c, mem)
                IN  [cpu |-> SetA(f.cpu, reg_dst, f.val), memory |-> mem]
           ELSE same
      [] op = OP("OP_PEA") ->
           LET ea == IF mode = 2 THEN c.a[reg] ELSE 0
           IN  PushLong(c, mem, ea)
      [] op = OP("OP_LINK") ->
           LET f == m68k_fetch_word(c, mem)
               w == PushLong(f.cpu, mem, f.cpu.a[reg])
               c1 == SetA(w.cpu, reg, w.cpu.a[7])
               c2 == SetA(c1, 7, Add32(c1.a[7], SInt16(f.val)))
           IN  [cpu |-> c2, memory |-> w.memory]
      [] op = OP("OP_UNLK") ->
           LET c1 == SetA(c, 7, c.a[reg])
               r == m68k_read_memory(c1, mem, c1.a[7], SIZE_LONG)
               c2 == SetA(r.cpu, reg, r.val)
               c3 == SetA(c2, 7, Add32(c2.a[7], 4))
           IN  [cpu |-> c3, memory |-> mem]
      [] op = OP("OP_SWAP") ->
           LET value == c.d[reg]
               c1 == SetD(c, reg, Make32(Lo16(value), Hi16(value)))
           IN  [cpu |-> ClearCV(m68k_set_flags(c1, c1.d[reg], SIZE_LONG)), memory |-> mem]
      [] op = OP("OP_EXT") ->
           LET c1 == IF BitAnd(opcode, 64) = 0
                     THEN SetD(c, reg, (c.d[reg] - (c.d[reg] % W16))
                                       + U16(SInt8(c.d[reg]) + W16))
                     ELSE SetD(c, reg, SInt16(c.d[reg]))
           IN  [cpu |-> ClearCV(m68k_set_flags(c1, c1.d[reg], SIZE_LONG)), memory |-> mem]
      [] op = OP("OP_EXG") ->
           LET reg1 == Shr(opcode, 9) % 8
               reg2 == opcode % 8
               xmode == Shr(opcode, 3) % 32
           IN  IF xmode = 8
               THEN [cpu |-> [c EXCEPT !.d = [c.d EXCEPT ![reg1] = c.d[reg2],
                                                         ![reg2] = c.d[reg1]]],
                     memory |-> mem]
               ELSE IF xmode = 9
               THEN [cpu |-> [c EXCEPT !.a = [c.a EXCEPT ![reg1] = c.a[reg2],
                                                         ![reg2] = c.a[reg1]]],
                     memory |-> mem]
               ELSE IF xmode = 17
               THEN [cpu |-> [c EXCEPT !.d[reg1] = c.a[reg2], !.a[reg2] = c.d[reg1]],
                     memory |-> mem]
               ELSE same
      [] op = OP("OP_TRAP") -> same
      [] op = OP("OP_TRAPV") ->
           IF m68k_get_flag(c, SR_OVERFLOW)
           THEN [cpu |-> [c EXCEPT !.halted = TRUE], memory |-> mem]
           ELSE same
      [] op = OP("OP_CHK") ->
           LET data == SInt16(c.d[reg_dst])
               upper == SInt16(c.d[reg])
           IN  IF data < 0 \/ data > upper
               THEN [cpu |-> [c EXCEPT !.halted = TRUE], memory |-> mem]
               ELSE same
      [] op = OP("OP_TAS") ->
           LET value == c.d[reg] % 256
               c1 == ClearCV(m68k_set_flags(c, value, SIZE_BYTE))
           IN  [cpu |-> SetD(c1, reg, Or32(c1.d[reg], 128)), memory |-> mem]
      [] op = OP("OP_RESET") ->
           IF BitAnd(c.sr, SR_SUPERVISOR) # 0 THEN same
           ELSE [cpu |-> [c EXCEPT !.halted = TRUE], memory |-> mem]
      [] op = OP("OP_STOP") ->
           IF BitAnd(c.sr, SR_SUPERVISOR) # 0
           THEN LET f == m68k_fetch_word(c, mem)
                IN  [cpu |-> [f.cpu EXCEPT !.sr = f.val, !.halted = TRUE], memory |-> mem]
           ELSE [cpu |-> [c EXCEPT !.halted = TRUE], memory |-> mem]
      [] OTHER -> same

(***************************************************************************)
(* m68k_execute_complete.c: the dispatcher of the remaining tags.  Of the  *)
(* tags it routes, the decoder returns only OP_BKPT; the FPU, bit-field,   *)
(* SIMD and 64-bit families are entered for no word a step can fetch.      *)
(***************************************************************************)
\* |x|
Abs(x) == IF x < 0 THEN -x ELSE x

\* x is the square of an integer
IsSquare(x) == x >= 0 /\ \E r \in 0..x : r * r = x

\* the double operations of m68k_execute_fpu at the arguments where the
\* result is an integer: an exact quotient, the root of a square, and
\* sin 0 = 0, cos 0 = 1, tan 0 = 0
FpDiv(x, y) ==
    CASE y # 0 /\ Abs(x) % Abs(y) = 0 ->
        IF (x < 0) = (y < 0) THEN Abs(x) \div Abs(y) ELSE -(Abs(x) \div Abs(y))

FpSqrt(x) == CASE IsSquare(x) -> CHOOSE r \in 0..x : r * r = x

FpSin(x) == CASE x = 0 -> 0

FpCos(x) == CASE x = 0 -> 1

FpTan(x) == CASE x = 0 -> 0

\* the arguments at which the operations above are defined
FpDefined(c, op, opcode) ==
    LET src == c.fp[opcode % 8]
        dst == c.fp[Shr(opcode, 7) % 8]
    IN  CASE op = OP("OP_FDIV") -> IF src = 0 THEN TRUE ELSE Abs(dst) % Abs(src) = 0
          [] op = OP("OP_FSQRT") -> IsSquare(src)
          [] op \in { OP("OP_FSIN"), OP("OP_FCOS"), OP("OP_FTAN") } -> src = 0
          [] OTHER -> TRUE

\* the flags FCMP and FTST set from a double: Z, N, and V and C cleared
FpFlags(c, result) ==
    m68k_set_flag(
        m68k_set_flag(
            m68k_set_flag(m68k_set_flag(c, SR_ZERO, result = 0),
                          SR_NEGATIVE, result < 0),
            SR_OVERFLOW, FALSE),
        SR_CARRY, FALSE)

\* m68k_execute_fpu: no test of apollo_mode
m68k_execute_fpu(c, mem, op, opcode) ==
    LET reg_src == opcode % 8
        reg_dst == Shr(opcode, 7) % 8
        src == c.fp[reg_src]
        dst == c.fp[reg_dst]
        put(x) == [cpu |-> [c EXCEPT !.fp[reg_dst] = x], memory |-> mem]
    IN  CASE op = OP("OP_FMOVE") -> put(src)
          [] op = OP("OP_FADD") -> put(dst + src)
          [] op = OP("OP_FSUB") -> put(dst - src)
          [] op = OP("OP_FMUL") -> put(dst * src)
          [] op = OP("OP_FDIV") ->
               IF src # 0 THEN put(FpDiv(dst, src))
               ELSE [cpu |-> [c EXCEPT !.halted = TRUE], memory |-> mem]
          [] op = OP("OP_FSQRT") -> put(FpSqrt(src))
          [] op = OP("OP_FABS") -> put(Abs(src))
          [] op = OP("OP_FNEG") -> put(-src)
          [] op = OP("OP_FCMP") -> [cpu |-> FpFlags(c, dst - src), memory |-> mem]
          [] op = OP("OP_FTST") -> [cpu |-> FpFlags(c, src), memory |-> mem]
          [] op = OP("OP_FSIN") -> put(FpSin(src))
          [] op = OP("OP_FCOS") -> put(FpCos(src))
          [] op = OP("OP_FTAN") -> put(FpTan(src))
          [] OTHER -> [cpu |-> c, memory |-> mem]

\* m68k_execute_apollo_simd with the extension disabled: the handler halts
\* and returns.  The lane loops behind the test are outside this model.
m68k_execute_apollo_simd(c, mem, op, opcode) ==
    CASE ~c.apollo_mode -> [cpu |-> [c EXCEPT !.halted = TRUE], memory |-> mem]

\* m68k_execute_apollo_64bit with the extension disabled: the handler halts
\* and returns.  The register-pair arithmetic behind the test is outside
\* this model.
m68k_execute_apollo_64bit(c, mem, op, opcode) ==
    CASE ~c.apollo_mode -> [cpu |-> [c EXCEPT !.halted = TRUE], memory |-> mem]

\* the tags m68k_execute_complete routes to m68k_execute_extended
ExtendedList ==
    { OP(n) : n \in { "OP_EXTB", "OP_PACK", "OP_UNPK", "OP_DIVSL", "OP_DIVUL",
                      "OP_CAS", "OP_CAS2", "OP_CMP2", "OP_CALLM", "OP_RTD",
                      "OP_BKPT", "OP_MOVEC", "OP_MOVES" } }

\* the tags m68k_execute_complete routes to the FPU, bit-field, SIMD and
\* 64-bit families by its range tests
ExtensionRanges ==
    TagRange("OP_FMOVE", "OP_FTAN") \cup TagRange("OP_BFCHG", "OP_BFFFO")
    \cup TagRange("OP_VADD", "OP_VMOVE") \cup TagRange("OP_ADD64", "OP_CMP64")

\* m68k_execute_extended, cases OP_EXTB and OP_BKPT
m68k_execute_extended(c, mem, op, opcode) ==
    LET reg_dst == Shr(opcode, 9) % 8
    IN  CASE op = OP("OP_EXTB") ->
               LET c1 == SetD(c, reg_dst, SInt8(c.d[reg_dst]))
               IN  [cpu |-> m68k_set_flags(c1, c1.d[reg_dst], SIZE_LONG), memory |-> mem]
          [] op = OP("OP_BKPT") ->
               [cpu |-> [c EXCEPT !.halted = TRUE], memory |-> mem]
          [] OTHER -> [cpu |-> c, memory |-> mem]

\* m68k_execute_complete treating a tag it routes nowhere as fatal
m68k_execute_complete_fatal(c, mem, op, opcode) ==
    IF op \in ExtendedList
    THEN m68k_execute_extended(c, mem, op, opcode)
    ELSE [cpu |-> [c EXCEPT !.halted = TRUE], memory |-> mem]

\* m68k_execute_complete: the range tests in their order (the bit-field
\* family, entered for no word a step can fetch, is left out); a tag outside
\* every range test and list falls out of the function with nothing done
m68k_execute_complete(c, mem, op, opcode) ==
    IF op \in TagRange("OP_FMOVE", "OP_FTAN")
    THEN m68k_execute_fpu(c, mem, op, opcode)
    ELSE IF op \in ExtendedList
    THEN m68k_execute_extended(c, mem, op, opcode)
    ELSE IF op \in TagRange("OP_VADD", "OP_VMOVE")
    THEN m68k_execute_apollo_simd(c, mem, op, opcode)
    ELSE IF op \in TagRange("OP_ADD64", "OP_CMP64")
    THEN m68k_execute_apollo_64bit(c, mem, op, opcode)
    ELSE [cpu |-> c, memory |-> mem]

(***************************************************************************)
(* m68k_execute.c: the arithmetic/logic/shift family.                      *)
(***************************************************************************)
\* get_size: the operand size in bits 7-6 of the opcode
get_size(opcode) ==
    LET size_bits == Shr(opcode, 6) % 4
    IN  CASE size_bits = 0 -> SIZE_BYTE
          [] size_bits = 1 -> SIZE_WORD
          [] size_bits = 2 -> SIZE_LONG
          [] OTHER -> SIZE_WORD

\* the immediate operand of ADDI/SUBI/CMPI/ANDI/ORI/EORI: [cpu, val]
FetchImmediate(c, mem, size) ==
    IF size = SIZE_LONG THEN m68k_fetch_long(c, mem) ELSE m68k_fetch_word(c, mem)

\* |x| \div y for y > 0 with the sign of x: C's x / y for a positive divisor
TruncDiv(x, y) ==
    LET q == x \div y
    IN  IF x < 0 /\ x % y # 0 THEN q + 1 ELSE q

\* the quotient and remainder DIVS stores, each converted to uint16_t; the
\* divisor is an int16_t and not zero (INT32_MIN / -1, undefined in C, gives
\* the quotient bits 0 here)
SDiv16(x, s) ==
    LET m == IF s < 0 THEN -s ELSE s
        q == TruncDiv(x, m)
        r == x - m * q
    IN  [q |-> IF s < 0 THEN U16(W16 - (q % W16)) ELSE U16(q), r |-> U16(r)]

\* the tags of the shift/rotate case that shift left
LeftShifts == { OP("OP_ASL"), OP("OP_LSL"), OP("OP_ROL"), OP("OP_ROXL") }

\* an iteration that records the bit shifted out in the carry flag only and
\* leaves the extend flag as it found it
ShiftOnce_carry_only(c, op, value) ==
    LET left == op \in LeftShifts
        carry == IF left THEN value < 0 ELSE value % 2 = 1
        x == m68k_get_flag(c, SR_EXTEND)
        shifted ==
            IF left THEN Shl1(value)
            ELSE IF op = OP("OP_ASR") THEN Asr1(value) ELSE Shr1(value)
        v1 == CASE op = OP("OP_ROL") -> Or32(shifted, IF carry THEN 1 ELSE 0)
                [] op = OP("OP_ROXL") -> Or32(shifted, IF x THEN 1 ELSE 0)
                [] op = OP("OP_ROR") -> Or32(shifted, IF carry THEN MinInt32 ELSE 0)
                [] op = OP("OP_ROXR") -> Or32(shifted, IF x THEN MinInt32 ELSE 0)
                [] OTHER -> shifted
    IN  [cpu |-> m68k_set_flag(c, SR_CARRY, carry), value |-> v1]

\* one iteration of the shift/rotate loop: [cpu, value]
ShiftOnce(c, op, value) ==
    LET left == op \in LeftShifts
        carry == IF left THEN value < 0 ELSE value % 2 = 1
        x == m68k_get_flag(c, SR_EXTEND)
        shifted ==
            IF left THEN Shl1(value)
            ELSE IF op = OP("OP_ASR") THEN Asr1(value) ELSE Shr1(value)
        v1 == CASE op = OP("OP_ROL") -> Or32(shifted, IF carry THEN 1 ELSE 0)
                [] op = OP("OP_ROXL") -> Or32(shifted, IF x THEN 1 ELSE 0)
                [] op = OP("OP_ROR") -> Or32(shifted, IF carry THEN MinInt32 ELSE 0)
                [] op = OP("OP_ROXR") -> Or32(shifted, IF x THEN MinInt32 ELSE 0)
                [] OTHER -> shifted
        c1 == m68k_set_flag(m68k_set_flag(c, SR_CARRY, carry), SR_EXTEND, carry)
    IN  [cpu |-> c1, value |-> v1]

RECURSIVE ShiftLoop(_, _, _, _)
\* the for loop of the shift/rotate case, count iterations
ShiftLoop(c, op, value, count) ==
    IF count = 0 THEN [cpu |-> c, value |-> value]
    ELSE LET s == ShiftOnce(c, op, value)
         IN  ShiftLoop(s.cpu, op, s.value, count - 1)

\* the tags the switch of m68k_execute_instruction has a case for
InstructionCases ==
    { OP(n) : n \in { "OP_NOP", "OP_MOVE", "OP_MOVEA", "OP_MOVEQ",
                      "OP_ADD", "OP_ADDA", "OP_ADDI", "OP_ADDQ", "OP_ADDX",
                      "OP_SUB", "OP_SUBA", "OP_SUBI", "OP_SUBQ", "OP_SUBX",
                      "OP_CMP", "OP_CMPA", "OP_CMPI",
                      "OP_AND", "OP_ANDI", "OP_OR", "OP_ORI", "OP_EOR", "OP_EORI",
                      "OP_NOT", "OP_NEG", "OP_NEGX", "OP_CLR", "OP_TST",
                      "OP_MULU", "OP_MULS", "OP_DIVU", "OP_DIVS",
                      "OP_ASL", "OP_ASR", "OP_LSL", "OP_LSR",
                      "OP_ROL", "OP_ROR", "OP_ROXL", "OP_ROXR", "OP_VCROSS" } }

\* the switch of m68k_execute_instruction, before the instruction counter
InstructionSwitch(c, mem, op, opcode) ==
    LET reg_dst == Shr(opcode, 9) % 8
        reg_src == opcode % 8
        size == get_size(opcode)
        src == c.d[reg_src]
        dst == c.d[reg_dst]
        extend == IF m68k_get_flag(c, SR_EXTEND) THEN 1 ELSE 0
        quick == IF reg_dst # 0 THEN reg_dst ELSE 8
        same == [cpu |-> c, memory |-> mem]
        only(cc) == [cpu |-> cc, memory |-> mem]
        logic(result) ==
            only(ClearCV(m68k_set_flags(SetD(c, reg_dst, result), result, size)))
    IN
    CASE op = OP("OP_NOP") -> same
      [] op = OP("OP_MOVE") -> only(m68k_set_flags(SetD(c, reg_dst, src), src, size))
      [] op = OP("OP_MOVEA") -> only(SetA(c, reg_dst, src))
      [] op = OP("OP_MOVEQ") ->
           LET v == SInt8(opcode % 256)
           IN  only(m68k_set_flags(SetD(c, reg_dst, v), v, SIZE_LONG))
      [] op = OP("OP_ADD") ->
           LET result == Add32(dst, src)
           IN  only(m68k_set_flags_add(SetD(c, reg_dst, result), src, dst, result, size))
      [] op = OP("OP_ADDA") -> only(SetA(c, reg_dst, Add32(c.a[reg_dst], src)))
      [] op = OP("OP_ADDI") ->
           LET f == FetchImmediate(c, mem, size)
               result == Add32(dst, f.val)
           IN  only(m68k_set_flags_add(SetD(f.cpu, reg_dst, result), f.val, dst, result, size))
      [] op = OP("OP_ADDQ") ->
           LET result == Add32(src, quick)
           IN  only(m68k_set_flags_add(SetD(c, reg_src, result), quick, src, result, size))
      [] op = OP("OP_ADDX") ->
           LET result == Add32(Add32(dst, src), extend)
           IN  only(m68k_set_flags_add(SetD(c, reg_dst, result), Add32(src, extend),
                                       dst, result, size))
      [] op = OP("OP_SUB") ->
           LET result == Sub32(dst, src)
           IN  only(m68k_set_flags_sub(SetD(c, reg_dst, result), src, dst, result, size))
      [] op = OP("OP_SUBA") -> only(SetA(c, reg_dst, Sub32(c.a[reg_dst], src)))
      [] op = OP("OP_SUBI") ->
           LET f == FetchImmediate(c, mem, size)
               result == Sub32(dst, f.val)
           IN  only(m68k_set_flags_sub(SetD(f.cpu, reg_dst, result), f.val, dst, result, size))
      [] op = OP("OP_SUBQ") ->
           LET result == Sub32(src, quick)
           IN  only(m68k_set_flags_sub(SetD(c, reg_src, result), quick, src, result, size))
      [] op = OP("OP_SUBX") ->
           LET result == Sub32(Sub32(dst, src), extend)
           IN  only(m68k_set_flags_sub(SetD(c, reg_dst, result), Add32(src, extend),
                                       dst, result, size))
      [] op = OP("OP_CMP") ->
           only(m68k_set_flags_sub(c, src, dst, Sub32(dst, src), size))
      [] op = OP("OP_CMPA") ->
           only(m68k_set_flags_sub(c, src, c.a[reg_dst],
                                   Sub32(c.a[reg_dst], src), SIZE_LONG))
      [] op = OP("OP_CMPI") ->
           LET f == FetchImmediate(c, mem, size)
           IN  only(m68k_set_flags_sub(f.cpu, f.val, dst, Sub32(dst, f.val), size))
      [] op = OP("OP_AND") -> logic(And32(dst, src))
      [] op = OP("OP_ANDI") ->
           LET f == FetchImmediate(c, mem, size)
               result == And32(dst, f.val)
           IN  only(ClearCV(m68k_set_flags(SetD(f.cpu, reg_dst, result), result, size)))
      [] op = OP("OP_OR") -> logic(Or32(dst, src))
      [] op = OP("OP_ORI") ->
           LET f == FetchImmediate(c, mem, size)
               result == Or32(dst, f.val)
           IN  only(ClearCV(m68k_set_flags(SetD(f.cpu, reg_dst, result), result, size)))
      [] op = OP("OP_EOR") -> logic(Xor32(dst, src))
      [] op = OP("OP_EORI") ->
           LET f == FetchImmediate(c, mem, size)
               result == Xor32(dst, f.val)
           IN  only(ClearCV(m68k_set_flags(SetD(f.cpu, reg_dst, result), result, size)))
      [] op = OP("OP_NOT") -> logic(Not32(dst))
      [] op = OP("OP_NEG") ->
           LET result == Neg32(dst)
           IN  only(m68k_set_flags_sub(SetD(c, reg_dst, result), dst, 0, result, size))
      [] op = OP("OP_NEGX") ->
           LET result == Sub32(Neg32(dst), extend)
           IN  only(m68k_set_flags_sub(SetD(c, reg_dst, result), Add32(dst, extend),
                                       0, result, size))
      [] op = OP("OP_CLR") ->
           LET c1 == SetD(c, reg_dst, 0)
               c2 == m68k_set_flag(c1, SR_NEGATIVE, FALSE)
               c3 == m68k_set_flag(c2, SR_ZERO, TRUE)
           IN  only(ClearCV(c3))
      [] op = OP("OP_TST") -> only(ClearCV(m68k_set_flags(c, dst, size)))
      [] op = OP("OP_MULU") ->
           LET result == Mul16(Lo16(src), Lo16(dst))
               c1 == ClearCV(m68k_set_flags(SetD(c, reg_dst, result), result, SIZE_LONG))
           IN  only([c1 EXCEPT !.cycle_count = @ + 70])
      [] op = OP("OP_MULS") ->
           LET result == SInt16(src) * SInt16(dst)
               c1 == ClearCV(m68k_set_flags(SetD(c, reg_dst, result), result, SIZE_LONG))
           IN  only([c1 EXCEPT !.cycle_count = @ + 70])
      [] op = OP("OP_DIVU") ->
           LET s16 == src % W16
               c1 == IF s16 = 0 THEN [c EXCEPT !.halted = TRUE]
                     ELSE LET qr == UDiv16(dst, s16)
                          IN  ClearCV(m68k_set_flags(
                                  SetD(c, reg_dst, Make32(qr.r, qr.q)),
                                  qr.q, SIZE_WORD))
           IN  only([c1 EXCEPT !.cycle_count = @ + 140])
      [] op = OP("OP_DIVS") ->
           LET s16 == SInt16(src)
               c1 == IF s16 = 0 THEN [c EXCEPT !.halted = TRUE]
                     ELSE LET qr == SDiv16(dst, s16)
                          IN  ClearCV(m68k_set_flags(
                                  SetD(c, reg_dst, Make32(qr.r, qr.q)),
                                  qr.q, SIZE_WORD))
           IN  only([c1 EXCEPT !.cycle_count = @ + 158])
      [] op \in TagRange("OP_ASL", "OP_ROXR") ->
           LET count == IF reg_dst = 0 THEN 8 ELSE reg_dst
               l == ShiftLoop(c, op, dst, count)
           IN  only(m68k_set_flags(SetD(l.cpu, reg_dst, l.value), l.value, size))
      [] op = OP("OP_VCROSS") -> (CASE ~c.apollo_mode -> same)
      [] OTHER -> m68k_execute_complete(c, mem, op, opcode)

\* m68k_execute_instruction: the switch, then cpu->instruction_count++
m68k_execute_instruction(c, mem, op, opcode) ==
    LET r == InstructionSwitch(c, mem, op, opcode)
    IN  [cpu |-> [r.cpu EXCEPT !.instruction_count = @ + 1], memory |-> r.memory]

(***************************************************************************)
(* The breakpoint interface (m68k_cpu_extended.c).  The array is modelled  *)
(* as the sequence of its first num_breakpoints entries.                   *)
(***************************************************************************)
\* indices of the enabled entries at an address, in array order
EnabledAt(bps, address) ==
    { i \in 1..Len(bps) : bps[i].enabled /\ bps[i].address = address }

\* indices of the entries at an address, enabled or not
EntriesAt(bps, address) == { i \in 1..Len(bps) : bps[i].address = address }

\* the least element of a non-empty set of indices
First(S) == CHOOSE i \in S : \A j \in S : i <= j

\* m68k_check_breakpoint without the test of the enabled flag
m68k_check_breakpoint_any(c, bps, address) ==
    IF EntriesAt(bps, address) = {}
    THEN [hit |-> FALSE, cpu |-> c, breakpoints |-> bps]
    ELSE [hit |-> TRUE,
          cpu |-> [c EXCEPT !.breakpoint_hit = TRUE, !.breakpoint_addr = address],
          breakpoints |-> [bps EXCEPT ![First(EntriesAt(bps, address))].hit_count = @ + 1]]

\* m68k_check_breakpoint: [hit, cpu, breakpoints]; the first enabled entry at
\* the address counts the hit
m68k_check_breakpoint(c, bps, address) ==
    IF EnabledAt(bps, address) = {}
    THEN [hit |-> FALSE, cpu |-> c, breakpoints |-> bps]
    ELSE LET i == First(EnabledAt(bps, address))
         IN  [hit |-> TRUE,
              cpu |-> [c EXCEPT !.breakpoint_hit = TRUE, !.breakpoint_addr = address],
              breakpoints |-> [bps EXCEPT ![i].hit_count = @ + 1]]

\* m68k_add_breakpoint: [cpu, breakpoints]; a full array is doubled first
m68k_add_breakpoint(c, bps, address) ==
    [cpu |-> IF Len(bps) >= c.max_breakpoints
             THEN [c EXCEPT !.max_breakpoints = 2 * c.max_breakpoints] ELSE c,
     breakpoints |-> Append(bps, [address |-> address, enabled |-> TRUE, hit_count |-> 0])]

\* m68k_remove_breakpoint: the first entry at the address is shifted out
m68k_remove_breakpoint(bps, address) ==
    IF EntriesAt(bps, address) = {} THEN bps
    ELSE LET i == First(EntriesAt(bps, address))
         IN  [j \in 1..(Len(bps) - 1) |-> IF j < i THEN bps[j] ELSE bps[j + 1]]

\* m68k_clear_breakpoints: num_breakpoints = 0
m68k_clear_breakpoints == << >>

\* m68k_enable_breakpoint: the first entry at the address gets the flag
m68k_enable_breakpoint(bps, address, enabled) ==
    IF EntriesAt(bps, address) = {} THEN bps
    ELSE [bps EXCEPT ![First(EntriesAt(bps, address))].enabled = enabled]

(***************************************************************************)
(* m68k_execute2.c: the step controller.                                   *)
(***************************************************************************)
\* the handler family m68k_execute_cycle hands a tag to
Family(op) ==
    IF op >= OP("OP_BRA") /\ op <= OP("OP_DBF") THEN "branches"
    ELSE IF op >= OP("OP_LEA") /\ op <= OP("OP_STOP") THEN "special"
    ELSE "instruction"

\* the dispatch with a TRAP tag taken as an exception that stops the processor
Dispatch_trapping(c, mem, op, opcode) ==
    CASE op = OP("OP_TRAP") -> [cpu |-> [c EXCEPT !.halted = TRUE], memory |-> mem]
      [] Family(op) = "branches" -> m68k_execute_branches(c, mem, op, opcode)
      [] Family(op) = "special" -> m68k_execute_special(c, mem, op, opcode)
      [] OTHER -> m68k_execute_instruction(c, mem, op, opcode)

\* the call m68k_execute_cycle makes for a decoded word
Dispatch(c, mem, op, opcode) ==
    CASE Family(op) = "branches" -> m68k_execute_branches(c, mem, op, opcode)
      [] Family(op) = "special" -> m68k_execute_special(c, mem, op, opcode)
      [] OTHER -> m68k_execute_instruction(c, mem, op, opcode)

\* m68k_execute_cycle past the halted test: breakpoint check, fetch, decode,
\* dispatch.  hit, fetched, opcode and op report what the call did.
CycleBody(c, mem, bps) ==
    LET c0 == [c EXCEPT !.bus_active = FALSE]
        b == m68k_check_breakpoint(c0, bps, c0.pc)
    IN  IF b.hit
        THEN [cpu |-> [b.cpu EXCEPT !.halted = TRUE], memory |-> mem,
              breakpoints |-> b.breakpoints,
              hit |-> TRUE, fetched |-> FALSE, opcode |-> 0, op |-> OP("OP_ILLEGAL")]
        ELSE LET f == m68k_fetch_word(c0, mem)
                 op == m68k_decode_instruction(f.val)
                 r == Dispatch(f.cpu, mem, op, f.val)
             IN  [cpu |-> r.cpu, memory |-> r.memory, breakpoints |-> bps,
                  hit |-> FALSE, fetched |-> ULess(c0.pc, MemSize - 1),
                  opcode |-> f.val, op |-> op]

\* m68k_execute_cycle without its test of the halted flag
m68k_execute_cycle_unguarded(c, mem, bps) == CycleBody(c, mem, bps)

\* m68k_execute_cycle
m68k_execute_cycle(c, mem, bps) ==
    IF c.halted
    THEN [cpu |-> c, memory |-> mem, breakpoints |-> bps,
          hit |-> FALSE, fetched |-> FALSE, opcode |-> 0, op |-> OP("OP_ILLEGAL")]
    ELSE CycleBody(c, mem, bps)

(***************************************************************************)
(* The state machine: one processor, one memory buffer, their drivers.     *)
(***************************************************************************)
VARIABLES
    cpu,            \* the M68K_CPU value
    memory,         \* the caller's byte buffer, 0..MemSize-1
    breakpoints,    \* cpu->breakpoints[0..num_breakpoints-1]
    last,           \* the call made last and what it reported
    pre             \* cpu, memory and breakpoints as that call found them

vars == << cpu, memory, breakpoints, last, pre >>

\* the record of a call: its name; for a step whether it hit a breakpoint,
\* whether it fetched, the word and tag it decoded, and whether it directly
\* follows a resume from a breakpoint hit; for an interface call its
\* arguments and result
Call(name) ==
    [call |-> name, hit |-> FALSE, fetched |-> FALSE, opcode |-> 0,
     op |-> OP("OP_ILLEGAL"), resumed |-> FALSE, addr |-> 0, size |-> 0, val |-> 0]

\* the state a call finds
Snapshot == [cpu |-> cpu, memory |-> memory, breakpoints |-> breakpoints]

\* a memory image: the words of a program stored big-endian from
\* program_start on, zero elsewhere (load_test_program's copy loop)
Image(program) ==
    [x \in 0..(MemSize - 1) |->
        IF x >= program_start /\ x < program_start + 2 * Len(program)
        THEN LET w == program[((x - program_start) \div 2) + 1]
             IN  IF (x - program_start) % 2 = 0 THEN Shr(w, 8) % 256 ELSE w % 256
        ELSE 0]

\* the program of load_test_program
TestProgram ==
    << \h7001, \h7202, \h7403, \hD240, \h9440, \hB440, \h6700, \h0002,
       \hD440, \h4E71, \h60FE >>

\* the processor as the loader leaves it: m68k_init, then pc and a7
Loaded == [m68k_init EXCEPT !.pc = program_start, !.a[7] = stack_top]

\* one step of a driver: m68k_execute_cycle, while the bound on followed
\* cycles and counted hits allows
Step(limit) ==
    /\ cpu.cycle_count < limit
    /\ \A i \in 1..Len(breakpoints) : breakpoints[i].hit_count < MaxHits
    /\ \E r \in { m68k_execute_cycle(cpu, memory, breakpoints) } :
           /\ cpu' = r.cpu
           /\ memory' = r.memory
           /\ breakpoints' = r.breakpoints
           /\ last' = [Call("execute_cycle") EXCEPT
                           !.hit = r.hit, !.fetched = r.fetched,
                           !.opcode = r.opcode, !.op = r.op,
                           !.resumed = (last.call = "resume" /\ last.hit)]
    /\ pre' = Snapshot

\* the driver clears halted to resume; the record keeps whether the call
\* before it was a step that hit a breakpoint
Resume ==
    /\ cpu.halted
    /\ cpu' = [cpu EXCEPT !.halted = FALSE]
    /\ last' = [Call("resume") EXCEPT !.hit = (last.call = "execute_cycle" /\ last.hit)]
    /\ pre' = Snapshot
    /\ UNCHANGED << memory, breakpoints >>

\* the driver resets the processor (m68k_reset)
Reset ==
    /\ cpu' = m68k_reset(cpu)
    /\ last' = Call("reset")
    /\ pre' = Snapshot
    /\ UNCHANGED << memory, breakpoints >>

\* the last call was a step that fetched the word at address a
SteppedOver(a) ==
    /\ last.call = "execute_cycle"
    /\ last.fetched
    /\ pre.cpu.pc = a

\* the last call was a step of a running processor that fetched a word
Executed ==
    /\ last.call = "execute_cycle"
    /\ last.fetched

\* the registers and the status register are as the last call found them
SameRegisters ==
    /\ cpu.d = pre.cpu.d
    /\ cpu.a = pre.cpu.a
    /\ cpu.sr = pre.cpu.sr

(***************************************************************************)
(* SpecTest: main.c.  main() initialises the processor, loads the test     *)
(* program and calls m68k_execute_cycle while the processor is not halted. *)
(***************************************************************************)
\* the processor and memory main() starts the loop with
InitTest ==
    /\ cpu = Loaded
    /\ memory = Image(TestProgram)
    /\ breakpoints = << >>
    /\ last = Call("init")
    /\ pre = [cpu |-> cpu, memory |-> memory, breakpoints |-> breakpoints]

\* the body of main()'s for loop
RunCycle ==
    /\ ~cpu.halted
    /\ Step(MaxRun)

NextTest == RunCycle

SpecTest == InitTest /\ [][NextTest]_vars

\* C1: once the test program's last ADD (its ninth word) has been stepped
\* over, D0 = 1, D1 = 3 and D2 = 3, and the BEQ before it was not taken.
C1_EndToEnd ==
    SteppedOver(program_start + 16) =>
        /\ last.opcode = \hD440
        /\ cpu.d[0] = 1
        /\ cpu.d[1] = 3
        /\ cpu.d[2] = 3
        /\ cpu.branch_taken = 0

(***************************************************************************)
(* Spec: a loader places one probe program at program_start; a driver      *)
(* steps, clears halted, or resets.                                        *)
(***************************************************************************)
\* the probe programs: the test program, unrecognised words, divisions by a
\* zero register, the halting system words, and jumps out of the buffer
Programs ==
    { TestProgram,
      << \hA000, \h7001 >>,                 \* line A, then MOVEQ #1,D0
      << \hF123, \h7001 >>,                 \* line F, then MOVEQ #1,D0
      << \h7005, \h4400, \h7001 >>,         \* MOVEQ #5,D0; NEG.B D0
      << \h7007, \h7200, \h80C1 >>,         \* MOVEQ #7,D0; MOVEQ #0,D1; DIVU D1,D0
      << \h7007, \h7200, \h81C1 >>,         \* MOVEQ #7,D0; MOVEQ #0,D1; DIVS D1,D0
      << \h4E72, \h2000, \h7001 >>,         \* STOP #$2000
      << \h4E76, \h7001 >>,                 \* TRAPV
      << \h4848, \h7001 >>,                 \* BKPT #0
      << \h601E >>,                         \* BRA.S to MemSize or beyond
      << \h70FF, \h2040, \h4ED0 >>,        \* MOVEQ #-1,D0; MOVEA.L D0,A0; JMP (A0)
      << \h4E73, \h7001 >>,                \* RTE
      << \h7EFF, \h4E71, \h4E71, \h4E71, \h7001 >>,   \* MOVEQ #-1,D7; NOP; NOP; NOP
      << \hB10F, \h7001 >>,                \* CMPM.B (A7)+,(A0)+
      << \h6000, \h0102 >>,                \* BRA.W with displacement 0x0102
      << \h6102, \h7001, \h4E75, \h7002 >>,   \* BSR.S to an RTS; MOVEQ #1,D0
      \* MOVEQ #1,D0; DBT D0,self; DBF D0,self; NOP
      << \h7001, \h50C8, \hFFFC, \h51C8, \hFFFC, \h4E71 >> }

Init ==
    /\ cpu = Loaded
    /\ memory \in { Image(program) : program \in Programs }
    /\ breakpoints = << >>
    /\ last = Call("init")
    /\ pre = [cpu |-> cpu, memory |-> memory, breakpoints |-> breakpoints]

Next ==
    \/ Step(MaxCycles)
    \/ Resume
    \/ Reset

Spec == Init /\ [][Next]_vars

\* the family whose switch has a case for the tag; "none" for a tag no
\* switch names
Implements(op) ==
    CASE op \in BranchCases -> "branches"
      [] op \in SpecialCases -> "special"
      [] op \in InstructionCases \cup ExtendedList -> "instruction"
      [] OTHER -> "none"

\* C2: a step hands every decoded tag that some family implements to that
\* family: the arithmetic, logic, compare, shift, multiply/divide, CLR and
\* TST tags reach m68k_execute_instruction, and no implemented tag lands in
\* the default arm of another family.
C2_DispatchMatches ==
    (Executed /\ Implements(last.op) # "none") =>
        Family(last.op) = Implements(last.op)

\* a step decoded ADD and m68k_execute_special received it
C2_AddInSpecial ==
    /\ Executed
    /\ last.op = OP("OP_ADD")
    /\ Family(last.op) = "special"
    /\ cpu.d = pre.cpu.d

\* the last call was a step of a running processor whose fetch was refused
FetchRefused ==
    /\ last.call = "execute_cycle"
    /\ ~pre.cpu.halted
    /\ ~last.hit
    /\ UGeq(pre.cpu.pc, MemSize - 1)

\* C6: a step whose opcode fetch is out of bounds (pc >= mem_size - 1) sets
\* halted, leaves pc where it was, and changes no data or address register,
\* no flag, no memory byte and not the instruction counter.
C6_FetchOutOfBounds ==
    FetchRefused =>
        /\ cpu.halted
        /\ cpu.pc = pre.cpu.pc
        /\ SameRegisters
        /\ memory = pre.memory
        /\ cpu.instruction_count = pre.cpu.instruction_count

\* a refused fetch happened, at a pc past the end and at a pc of 2^32 - 1
C6_Witness ==
    /\ FetchRefused
    /\ cpu.halted
    /\ ~last.fetched
    /\ pre.cpu.pc \in { MemSize, -1 }

\* every word of line A and of line F decodes to the illegal tag
LineAFIllegal ==
    \A w \in (\hA000 .. \hAFFF) \cup (\hF000 .. \hFFFF) :
        m68k_decode_instruction(w) = OP("OP_ILLEGAL")

\* C8: a step over a word that decodes to the illegal tag, as every line-A
\* and line-F word does, advances pc by exactly 2, leaves halted false and
\* leaves D0-D7, A0-A7, SR and memory unchanged.
C8_IllegalIsNoOp ==
    /\ LineAFIllegal
    /\ (Executed /\ last.op = OP("OP_ILLEGAL")) =>
           /\ cpu.pc = Add32(pre.cpu.pc, 2)
           /\ ~cpu.halted
           /\ SameRegisters
           /\ memory = pre.memory

\* a line-A word was stepped over and the processor runs on
C8_Witness ==
    /\ Executed
    /\ last.opcode = \hA000
    /\ last.op = OP("OP_ILLEGAL")
    /\ cpu.pc = program_start + 2
    /\ ~cpu.halted

\* a DIVU or DIVS word with a data register as its source operand
DivideWord(w) == BitAnd(w, \hF0F8) = \h80C0

\* C9: a step on a DIVU or DIVS word whose source register holds a zero low
\* word sets halted and leaves the destination register as it was.
C9_DivideByZeroHalts ==
    (Executed /\ DivideWord(last.opcode) /\ Lo16(pre.cpu.d[last.opcode % 8]) = 0) =>
        /\ cpu.halted
        /\ cpu.d[Shr(last.opcode, 9) % 8] = pre.cpu.d[Shr(last.opcode, 9) % 8]

\* a step on DIVS D1,D0 with D1 = 0 and D0 = 7 left the processor running
C9_DivsNotHalted ==
    /\ Executed
    /\ last.opcode = \h81C1
    /\ last.op = OP("OP_DIVS")
    /\ pre.cpu.d[1] = 0
    /\ pre.cpu.d[0] = 7
    /\ ~cpu.halted

\* C10: a step on STOP (0x4E72), on TRAPV (0x4E76) with the overflow flag
\* set, or on BKPT (0x4848-0x484F) sets halted.
C10_FatalWordsHalt ==
    (/\ Executed
     /\ \/ last.opcode = \h4E72
        \/ last.opcode = \h4E76 /\ m68k_get_flag(pre.cpu, SR_OVERFLOW)
        \/ last.opcode \in \h4848 .. \h484F) =>
        cpu.halted

\* a step on the STOP word decoded TRAP and left the processor running
C10_StopNotHalted ==
    /\ Executed
    /\ last.opcode = \h4E72
    /\ last.op = OP("OP_TRAP")
    /\ ~cpu.halted

\* C11: a step on the RTE word 0x4E73 with the supervisor bit clear sets
\* halted and leaves SR and A7 as they were; with the supervisor bit set it
\* loads SR from the word at A7 and PC from the long word after it, and
\* advances A7 by 6.
C11_RtePrivilege ==
    (Executed /\ last.opcode = \h4E73) =>
        IF BitAnd(pre.cpu.sr, SR_SUPERVISOR) = 0
        THEN /\ cpu.halted
             /\ cpu.sr = pre.cpu.sr
             /\ cpu.a[7] = pre.cpu.a[7]
        ELSE /\ cpu.a[7] = Add32(pre.cpu.a[7], 6)
             /\ cpu.sr = m68k_read_memory(pre.cpu, pre.memory,
                                          pre.cpu.a[7], SIZE_WORD).val
             /\ cpu.pc = m68k_read_memory(pre.cpu, pre.memory,
                                          Add32(pre.cpu.a[7], 2), SIZE_LONG).val

\* a step on the RTE word in supervisor mode decoded TRAP, popped nothing and
\* went on to the next word
C11_RteIsTrap ==
    /\ Executed
    /\ last.opcode = \h4E73
    /\ last.op = OP("OP_TRAP")
    /\ BitAnd(pre.cpu.sr, SR_SUPERVISOR) # 0
    /\ cpu.a[7] = pre.cpu.a[7]
    /\ cpu.pc = Add32(pre.cpu.pc, 2)

\* C14: every step that executes an instruction (not halted, no breakpoint
\* hit, opcode fetch in bounds) increases instruction_count by exactly 1,
\* whichever handler family the tag is dispatched to.
C14_CountsEveryInstruction ==
    Executed => cpu.instruction_count = pre.cpu.instruction_count + 1

\* a step executed a conditional branch through m68k_execute_branches and
\* the instruction counter stayed where it was
C14_BranchNotCounted ==
    /\ Executed
    /\ last.opcode = \h6700
    /\ Family(last.op) = "branches"
    /\ cpu.pc # pre.cpu.pc
    /\ cpu.instruction_count = pre.cpu.instruction_count

\* the processor fields a fetch does not write
Untouched(c) ==
    [ d |-> c.d, a |-> c.a, sr |-> c.sr, usp |-> c.usp, ssp |-> c.ssp,
      vbr |-> c.vbr, fp |-> c.fp, v |-> c.v, apollo_mode |-> c.apollo_mode,
      halted |-> c.halted, trace_mode |-> c.trace_mode ]

\* C17: a step over a NOP word (0x4E71), the first or any later one of a
\* run of NOPs, leaves D0-D7, A0-A7, the status register and every other
\* register as they were and halted false; the pc advances by 2, the cycle
\* and instruction counters do not go down, and memory is untouched.
C17_NopFrame ==
    (Executed /\ last.opcode = \h4E71) =>
        /\ SameRegisters
        /\ Untouched(cpu) = Untouched(pre.cpu)
        /\ ~cpu.halted
        /\ cpu.pc = Add32(pre.cpu.pc, 2)
        /\ cpu.cycle_count >= pre.cpu.cycle_count
        /\ cpu.instruction_count >= pre.cpu.instruction_count
        /\ memory = pre.memory

\* the third of three consecutive NOPs was stepped over with D7 = -1 and the
\* negative flag still as MOVEQ left them
C17_Witness ==
    /\ Executed
    /\ last.opcode = \h4E71
    /\ pre.cpu.pc = program_start + 6
    /\ cpu.pc = program_start + 8
    /\ cpu.d[7] = -1
    /\ m68k_get_flag(cpu, SR_NEGATIVE)
    /\ ~cpu.halted

(***************************************************************************)
(* SpecBp: a debugger session on the test program.  The debugger edits the *)
(* breakpoint set through the interface, steps, and clears halted.         *)
(***************************************************************************)
\* the addresses the debugger names: the second and third instruction
BpAddrs == { program_start + 2, program_start + 4 }

AddBreakpoint ==
    /\ Len(breakpoints) < MaxBp
    /\ \E address \in BpAddrs :
         \E r \in { m68k_add_breakpoint(cpu, breakpoints, address) } :
           /\ cpu' = r.cpu
           /\ breakpoints' = r.breakpoints
           /\ last' = [Call("add_breakpoint") EXCEPT !.addr = address]
    /\ pre' = Snapshot
    /\ UNCHANGED memory

RemoveBreakpoint ==
    /\ \E address \in BpAddrs :
           /\ breakpoints' = m68k_remove_breakpoint(breakpoints, address)
           /\ last' = [Call("remove_breakpoint") EXCEPT !.addr = address]
    /\ pre' = Snapshot
    /\ UNCHANGED << cpu, memory >>

EnableBreakpoint ==
    /\ \E address \in BpAddrs, enabled \in BOOLEAN :
           /\ breakpoints' = m68k_enable_breakpoint(breakpoints, address, enabled)
           /\ last' = [Call("enable_breakpoint") EXCEPT
                           !.addr = address, !.val = IF enabled THEN 1 ELSE 0]
    /\ pre' = Snapshot
    /\ UNCHANGED << cpu, memory >>

ClearBreakpoints ==
    /\ breakpoints' = m68k_clear_breakpoints
    /\ last' = Call("clear_breakpoints")
    /\ pre' = Snapshot
    /\ UNCHANGED << cpu, memory >>

NextBp ==
    \/ Step(MaxSession)
    \/ Resume
    \/ AddBreakpoint
    \/ RemoveBreakpoint
    \/ EnableBreakpoint
    \/ ClearBreakpoints

SpecBp == InitTest /\ [][NextBp]_vars

\* C3: a step of a halted processor leaves the whole processor state, the
\* breakpoint hit counts and the memory buffer unchanged; in particular no
\* step changes halted from true to false.
C3_HaltedStepIsNoOp ==
    (last.call = "execute_cycle" /\ pre.cpu.halted) =>
        /\ cpu = pre.cpu
        /\ memory = pre.memory
        /\ breakpoints = pre.breakpoints

\* a halted processor, standing on an enabled breakpoint, was stepped
C3_Witness ==
    /\ last.call = "execute_cycle"
    /\ pre.cpu.halted
    /\ cpu.halted
    /\ EnabledAt(breakpoints, cpu.pc) # {}

\* C4: when the driver resumes after a breakpoint hit at A and steps again,
\* the instruction at A is executed and the hit count is not incremented a
\* second time for the same arrival.
C4_ResumePassesBreakpoint ==
    (last.call = "execute_cycle" /\ last.resumed
     /\ EnabledAt(pre.breakpoints, pre.cpu.pc) # {}) =>
        /\ ~last.hit
        /\ last.fetched
        /\ breakpoints = pre.breakpoints
        /\ cpu.pc # pre.cpu.pc

\* the step after a resume hit the same breakpoint again: its count is 2
\* and the processor is halted at the same pc
C4_HitTwice ==
    /\ last.call = "execute_cycle"
    /\ last.resumed
    /\ last.hit
    /\ cpu.halted
    /\ cpu.pc = pre.cpu.pc
    /\ \E i \in EnabledAt(breakpoints, cpu.pc) : breakpoints[i].hit_count = 2

\* the last call was a step of a running processor
RunningStep ==
    /\ last.call = "execute_cycle"
    /\ ~pre.cpu.halted

\* C5: a step with pc on an enabled breakpoint executes nothing: pc, the
\* registers, SR, memory and both counters are unchanged; halted, the
\* breakpoint-hit bookkeeping and the first enabled entry's hit count change
\* (and the bus-activity latch is cleared).  With only disabled entries at
\* pc the step does not hit and executes as it does with no breakpoints.
C5_BreakpointStepFrame ==
    /\ (RunningStep /\ EnabledAt(pre.breakpoints, pre.cpu.pc) # {}) =>
           /\ last.hit
           /\ cpu = [pre.cpu EXCEPT !.halted = TRUE,
                                    !.breakpoint_hit = TRUE,
                                    !.breakpoint_addr = pre.cpu.pc,
                                    !.bus_active = FALSE]
           /\ memory = pre.memory
           /\ breakpoints =
                  [pre.breakpoints EXCEPT
                      ![First(EnabledAt(pre.breakpoints, pre.cpu.pc))].hit_count = @ + 1]
    /\ (RunningStep /\ EnabledAt(pre.breakpoints, pre.cpu.pc) = {}
        /\ EntriesAt(pre.breakpoints, pre.cpu.pc) # {}) =>
           /\ ~last.hit
           /\ last.fetched
           /\ ~cpu.halted
           /\ breakpoints = pre.breakpoints
           /\ cpu = CycleBody(pre.cpu, pre.memory, << >>).cpu
           /\ cpu.pc = Add32(pre.cpu.pc, 2)

\* both cases occurred: the last step passed a disabled breakpoint, and an
\* entry of the set has counted a hit
C5_Witness ==
    /\ RunningStep
    /\ EnabledAt(pre.breakpoints, pre.cpu.pc) = {}
    /\ EntriesAt(pre.breakpoints, pre.cpu.pc) # {}
    /\ cpu.pc = Add32(pre.cpu.pc, 2)
    /\ \E i \in 1..Len(breakpoints) : breakpoints[i].hit_count > 0

(***************************************************************************)
(* SpecMem: a caller uses the sized accessors on the buffer of the test    *)
(* program, around its end, between steps.                                 *)
(***************************************************************************)
\* the addresses accessed: the last bytes of the buffer, its size, 2^32 - 1
MemAddrs == { MemSize - 4, MemSize - 2, MemSize - 1, MemSize, -1 }

\* the operand sizes
Sizes == { SIZE_BYTE, SIZE_WORD, SIZE_LONG }

\* the value written: 0xA1B2C3D4 as a 32-bit pattern
MemValues == { Make32(\hA1B2, \hC3D4) }

ReadMemory ==
    /\ cpu.cycle_count < MaxSession
    /\ \E addr \in MemAddrs, size \in Sizes :
         \E r \in { m68k_read_memory(cpu, memory, addr, size) } :
           /\ cpu' = r.cpu
           /\ last' = [Call("read_memory") EXCEPT
                           !.addr = addr, !.size = size, !.val = r.val]
    /\ pre' = Snapshot
    /\ UNCHANGED << memory, breakpoints >>

WriteMemory ==
    /\ cpu.cycle_count < MaxSession
    /\ \E addr \in MemAddrs, size \in Sizes, value \in MemValues :
         \E r \in { m68k_write_memory(cpu, memory, addr, value, size) } :
           /\ cpu' = r.cpu
           /\ memory' = r.memory
           /\ last' = [Call("write_memory") EXCEPT
                           !.addr = addr, !.size = size, !.val = value]
    /\ pre' = Snapshot
    /\ UNCHANGED breakpoints

NextMem ==
    \/ Step(MaxSession)
    \/ ReadMemory
    \/ WriteMemory

SpecMem == InitTest /\ [][NextMem]_vars

\* some byte of the access lies outside the buffer
OutOfBounds(addr, size) == UGeq(addr, MemSize) \/ addr + size > MemSize

\* C7: a sized read with a byte outside the buffer returns 0, a sized write
\* with a byte outside the buffer changes no memory byte, and neither sets
\* halted nor changes a register, the pc or the status register.
C7_OutOfBoundsAccess ==
    (last.call \in { "read_memory", "write_memory" }
     /\ OutOfBounds(last.addr, last.size)) =>
        /\ last.call = "read_memory" => last.val = 0
        /\ memory = pre.memory
        /\ cpu.halted = pre.cpu.halted
        /\ cpu.pc = pre.cpu.pc
        /\ SameRegisters

\* a long read that straddles the end returned 0 although the bytes inside
\* the buffer are not zero, and the processor still runs
C7_Witness ==
    /\ last.call = "read_memory"
    /\ last.addr = MemSize - 2
    /\ last.size = SIZE_LONG
    /\ memory[MemSize - 2] # 0
    /\ last.val = 0
    /\ ~cpu.halted

(***************************************************************************)
(* SpecExt: a session on the extension set.  The driver switches the       *)
(* extension flag with m68k_enable_apollo, hands SIMD, 64-bit and FPU tags *)
(* to m68k_execute_instruction, and clears halted.                         *)
(***************************************************************************)
\* the SIMD, 64-bit and FPU tags
SimdTags == TagRange("OP_VADD", "OP_VSUM")

Int64Tags == TagRange("OP_ADD64", "OP_CMP64")

FpuTags == TagRange("OP_FMOVE", "OP_FTAN")

\* the tags whose handler tests apollo_mode before anything else
GatedTags ==
    TagRange("OP_VADD", "OP_VMOVE") \cup Int64Tags \cup { OP("OP_VCROSS") }

\* the opcode words of the session: register fields 0 and 1 in both orders
ExtWords == { \h0001, \h0080 }

EnableApollo ==
    /\ \E enable \in BOOLEAN :
           /\ cpu' = m68k_enable_apollo(cpu, enable)
           /\ last' = [Call("enable_apollo") EXCEPT !.val = IF enable THEN 1 ELSE 0]
    /\ pre' = Snapshot
    /\ UNCHANGED << memory, breakpoints >>

\* m68k_execute_instruction on an extension tag; gated tags are followed
\* with the extension disabled, FPU tags where the result is an integer of
\* magnitude at most MaxFp
ExecuteTag ==
    /\ cpu.instruction_count < MaxExt
    /\ \E op \in SimdTags \cup Int64Tags \cup FpuTags, opcode \in ExtWords :
           /\ op \in GatedTags => ~cpu.apollo_mode
           /\ FpDefined(cpu, op, opcode)
           /\ \E r \in { m68k_execute_instruction(cpu, memory, op, opcode) } :
                  /\ \A i \in 0..7 : Abs(r.cpu.fp[i]) <= MaxFp
                  /\ cpu' = r.cpu
                  /\ memory' = r.memory
           /\ last' = [Call("execute_instruction") EXCEPT !.op = op, !.opcode = opcode]
    /\ pre' = Snapshot
    /\ UNCHANGED breakpoints

NextExt ==
    \/ EnableApollo
    \/ ExecuteTag
    \/ Resume

SpecExt == InitTest /\ [][NextExt]_vars

\* the last call executed an extension tag with the extension disabled
DisabledTag ==
    /\ last.call = "execute_instruction"
    /\ last.op \in SimdTags \cup Int64Tags \cup FpuTags
    /\ ~pre.cpu.apollo_mode

\* C12: with the extension flag false, executing a SIMD, 64-bit or FPU tag
\* sets halted and changes no vector register, floating-point register,
\* data register or flag.
C12_DisabledExtensionHalts ==
    DisabledTag =>
        /\ cpu.halted
        /\ cpu.v = pre.cpu.v
        /\ cpu.fp = pre.cpu.fp
        /\ cpu.d = pre.cpu.d
        /\ cpu.sr = pre.cpu.sr

\* FCOS ran with the extension disabled: a floating-point register changed
\* and the processor was not halted
C12_FpuRunsDisabled ==
    /\ DisabledTag
    /\ last.op = OP("OP_FCOS")
    /\ ~pre.cpu.halted
    /\ ~cpu.halted
    /\ cpu.fp # pre.cpu.fp

(***************************************************************************)
(* SpecReset: the debugger session of SpecBp with a driver that also       *)
(* resets the processor and switches the extension flag.                   *)
(***************************************************************************)
NextReset ==
    \/ Step(MaxReset)
    \/ Resume
    \/ Reset
    \/ EnableApollo
    \/ AddBreakpoint
    \/ EnableBreakpoint

SpecReset == InitTest /\ [][NextReset]_vars

\* C13: m68k_reset leaves D0-D7, A0-A7 and PC zero, SR with the supervisor
\* bit only and halted false, and keeps the cycle counter, the instruction
\* counter, the extension flag and the breakpoint set (count, capacity,
\* addresses, enabled flags, hit counts) as they were; the step after it is
\* not refused as halted.
C13_ResetDefaults ==
    last.call = "reset" =>
        /\ cpu.d = [i \in 0..7 |-> 0]
        /\ cpu.a = [i \in 0..7 |-> 0]
        /\ cpu.pc = 0
        /\ cpu.sr = SR_SUPERVISOR
        /\ ~cpu.halted
        /\ cpu.cycle_count = pre.cpu.cycle_count
        /\ cpu.instruction_count = pre.cpu.instruction_count
        /\ cpu.apollo_mode = pre.cpu.apollo_mode
        /\ cpu.max_breakpoints = pre.cpu.max_breakpoints
        /\ breakpoints = pre.breakpoints
        /\ LET r == m68k_execute_cycle(cpu, memory, breakpoints)
           IN  r.hit \/ r.fetched

\* a processor halted at a counted breakpoint, with registers loaded,
\* instructions counted and the extension disabled, was reset
C13_Witness ==
    /\ last.call = "reset"
    /\ pre.cpu.halted
    /\ pre.cpu.d[0] = 1
    /\ pre.cpu.a[7] = stack_top
    /\ pre.cpu.instruction_count > 0
    /\ ~pre.cpu.apollo_mode
    /\ Len(breakpoints) > 0
    /\ breakpoints[1].hit_count > 0
    /\ ~cpu.halted

(***************************************************************************)
(* SpecCond: a driver sets and clears the five flags with m68k_set_flag    *)
(* and asks m68k_test_condition for each of the 16 condition codes.        *)
(***************************************************************************)
Flags == { SR_CARRY, SR_OVERFLOW, SR_ZERO, SR_NEGATIVE, SR_EXTEND }

SetFlag ==
    /\ \E flag \in Flags, value \in BOOLEAN :
           /\ cpu' = m68k_set_flag(cpu, flag, value)
           /\ last' = [Call("set_flag") EXCEPT !.addr = flag,
                                               !.val = IF value THEN 1 ELSE 0]
    /\ pre' = Snapshot
    /\ UNCHANGED << memory, breakpoints >>

\* the record keeps the condition code as addr and the answer as val
TestCondition ==
    /\ \E condition \in 0..15 :
           last' = [Call("test_condition") EXCEPT
                        !.addr = condition,
                        !.val = IF m68k_test_condition(cpu, condition) THEN 1 ELSE 0]
    /\ pre' = Snapshot
    /\ UNCHANGED << cpu, memory, breakpoints >>

NextCond ==
    \/ SetFlag
    \/ TestCondition

SpecCond == InitTest /\ [][NextCond]_vars

\* the 68000 condition table: T, F, HI, LS, CC, CS, NE, EQ, VC, VS, PL, MI,
\* GE, LT, GT, LE as functions of N, Z, V, C
StandardCondition(condition, n, z, v, c) ==
    LET table == << TRUE, FALSE,
                    ~(c \/ z), c \/ z,
                    ~c, c,
                    ~z, z,
                    ~v, v,
                    ~n, n,
                    n = v, n # v,
                    (n = v) /\ ~z, (n # v) \/ z >>
    IN  table[condition + 1]

\* C15: for every condition code and every combination of N, Z, V, C the
\* answer of m68k_test_condition is the entry of the 68000 condition table,
\* and the codes 2k and 2k+1 give opposite answers.
C15_ConditionTable ==
    /\ last.call = "test_condition" =>
           (last.val = 1) = StandardCondition(last.addr,
                                m68k_get_flag(cpu, SR_NEGATIVE),
                                m68k_get_flag(cpu, SR_ZERO),
                                m68k_get_flag(cpu, SR_OVERFLOW),
                                m68k_get_flag(cpu, SR_CARRY))
    /\ \A k \in 0..7 :
           m68k_test_condition(cpu, 2 * k) # m68k_test_condition(cpu, 2 * k + 1)

\* GE was asked with N and V both set and answered true
C15_Witness ==
    /\ last.call = "test_condition"
    /\ last.addr = 12
    /\ m68k_get_flag(cpu, SR_NEGATIVE)
    /\ m68k_get_flag(cpu, SR_OVERFLOW)
    /\ last.val = 1

(***************************************************************************)
(* SpecMoveq: a loader places a first MOVEQ and then any MOVEQ word at     *)
(* program_start; the driver steps through both.                           *)
(***************************************************************************)
\* the words MOVEQ #n,Dx: 0111 xxx0 nnnnnnnn
MoveqWords == { \h7000 + 512 * x + n : x \in 0..7, n \in 0..255 }

\* MOVEQ #1,D0 and MOVEQ #-1,D7
FirstWords == { \h7001, \h7EFF }

InitMoveq ==
    /\ cpu = Loaded
    /\ memory \in { Image(<< w1, w2 >>) : w1 \in FirstWords, w2 \in MoveqWords }
    /\ breakpoints = << >>
    /\ last = Call("init")
    /\ pre = [cpu |-> cpu, memory |-> memory, breakpoints |-> breakpoints]

NextMoveq == Step(MaxMoveq)

SpecMoveq == InitMoveq /\ [][NextMoveq]_vars

\* the last call was a step on a MOVEQ word
SteppedMoveq ==
    /\ Executed
    /\ BitAnd(last.opcode, \hF100) = \h7000

\* C16: a step on MOVEQ #n,Dx sets Dx to the 32-bit sign extension of n,
\* sets Z iff n = 0 and N iff n is negative, and changes no other data
\* register and no address register.
C16_Moveq ==
    SteppedMoveq =>
        LET x == Shr(last.opcode, 9) % 8
            n == last.opcode % 256
        IN  /\ cpu.d[x] = IF n >= 128 THEN n - 256 ELSE n
            /\ m68k_get_flag(cpu, SR_ZERO) = (n = 0)
            /\ m68k_get_flag(cpu, SR_NEGATIVE) = (n >= 128)
            /\ \A r \in 0..7 : r # x => cpu.d[r] = pre.cpu.d[r]
            /\ cpu.a = pre.cpu.a

\* MOVEQ #-1,D5 ran after MOVEQ #1,D0: D5 is all ones, N is set, D0 is kept
C16_Witness ==
    /\ SteppedMoveq
    /\ last.opcode = \h7AFF
    /\ cpu.d[5] = -1
    /\ m68k_get_flag(cpu, SR_NEGATIVE)
    /\ ~m68k_get_flag(cpu, SR_ZERO)
    /\ cpu.d[0] = 1

(***************************************************************************)
(* SpecDecode: a disassembler hands every 16-bit word to                   *)
(* m68k_decode_instruction, which writes *op and params and nothing else.  *)
(***************************************************************************)
Words == 0 .. (W16 - 1)

\* the disassembler holds the word it is about to decode
InitDecode ==
    /\ cpu = Loaded
    /\ memory = Image(TestProgram)
    /\ breakpoints = << >>
    /\ last \in { [Call("init") EXCEPT !.opcode = opcode] : opcode \in Words }
    /\ pre = [cpu |-> cpu, memory |-> memory, breakpoints |-> breakpoints]

DecodeWord ==
    /\ last.call = "init"
    /\ last' = [Call("decode_instruction") EXCEPT
                    !.opcode = last.opcode,
                    !.op = m68k_decode_instruction(last.opcode)]
    /\ pre' = Snapshot
    /\ UNCHANGED << cpu, memory, breakpoints >>

NextDecode == DecodeWord

SpecDecode == InitDecode /\ [][NextDecode]_vars

\* the last call decoded the word w
Decoded(w) == last.call = "decode_instruction" /\ last.opcode = w

\* C18: in decode line 4 the specific words win over the TRAP pattern:
\* RESET 0x4E70, NOP 0x4E71, STOP 0x4E72, RTE 0x4E73, RTS 0x4E75, TRAPV
\* 0x4E76, RTR 0x4E77, LINK 0x4E50-0x4E57 and UNLK 0x4E58-0x4E5F decode to
\* their own tags, and TRAP is returned only for 0x4E40-0x4E4F.
C18_SpecificBeforeTrap ==
    /\ Decoded(\h4E70) => last.op = OP("OP_RESET")
    /\ Decoded(\h4E71) => last.op = OP("OP_NOP")
    /\ Decoded(\h4E72) => last.op = OP("OP_STOP")
    /\ Decoded(\h4E73) => last.op = OP("OP_RTE")
    /\ Decoded(\h4E75) => last.op = OP("OP_RTS")
    /\ Decoded(\h4E76) => last.op = OP("OP_TRAPV")
    /\ Decoded(\h4E77) => last.op = OP("OP_RTR")
    /\ \A w \in \h4E50 .. \h4E57 : Decoded(w) => last.op = OP("OP_LINK")
    /\ \A w \in \h4E58 .. \h4E5F : Decoded(w) => last.op = OP("OP_UNLK")
    /\ (last.call = "decode_instruction" /\ last.op = OP("OP_TRAP")) =>
           last.opcode \in \h4E40 .. \h4E4F

\* the RTS word decoded to the TRAP tag
C18_RtsIsTrap ==
    /\ Decoded(\h4E75)
    /\ last.op = OP("OP_TRAP")

\* the standard 68000 opcode word of an operation, for operations that have
\* an execution handler
StandardEncoding ==
    { << \h80C0, "OP_DIVU" >>, << \hC0C0, "OP_MULU" >>, << \h4400, "OP_NEG" >>,
      << \h4600, "OP_NOT" >>, << \h0200, "OP_ANDI" >>, << \h0400, "OP_SUBI" >>,
      << \h0C00, "OP_CMPI" >>, << \h0140, "OP_BCHG" >>, << \h01C0, "OP_BSET" >>,
      << \hE108, "OP_LSL" >>, << \hE118, "OP_ROL" >>, << \h4890, "OP_MOVEM" >>,
      << \hC140, "OP_EXG" >> }

\* C19: the standard opcode word of each supported operation decodes to that
\* operation's tag: DIVU 0x80C0, MULU 0xC0C0, NEG 0x4400, NOT 0x4600, ANDI
\* 0x0200, SUBI 0x0400, CMPI 0x0C00, BCHG 0x0140, BSET 0x01C0, LSL 0xE108,
\* ROL 0xE118, MOVEM 0x4890, EXG 0xC140.
C19_RoundTrip ==
    \A e \in StandardEncoding : Decoded(e[1]) => last.op = OP(e[2])

\* the DIVU word decoded to the OR tag
C19_DivuIsOr ==
    /\ Decoded(\h80C0)
    /\ last.op = OP("OP_OR")

\* C20: for each of the 65536 words m68k_decode_instruction returns one tag,
\* the same on every call, inside the tag set 0 .. OP_COUNT - 1 (the
\* computed tags OP_BCC + (cond - 2), OP_SCC + cond and OP_DBCC + cond
\* included), and changes no processor state, pc or memory.
C20_DecodeTotal ==
    last.call = "decode_instruction" =>
        /\ last.op \in 0 .. (OP_COUNT - 1)
        /\ last.op = m68k_decode_instruction(last.opcode)
        /\ BitAnd(last.opcode, \hF000) = \h6000 /\ Shr(last.opcode, 8) % 16 >= 2 =>
               last.op \in TagRange("OP_BCC", "OP_BVS")
        /\ BitAnd(last.opcode, \hF0F8) = \h50C8 =>
               last.op \in TagRange("OP_DBCC", "OP_DBF")
        /\ BitAnd(last.opcode, \hF0C0) = \h50C0 /\ BitAnd(last.opcode, \h0038) # \h0008 =>
               last.op \in TagRange("OP_SCC", "OP_SF")
        /\ cpu = pre.cpu
        /\ memory = pre.memory
        /\ breakpoints = pre.breakpoints

\* the DBcc word with condition field 15 (0x5FC8) decoded to OP_DBCC + 15,
\* the last tag of its group
C20_Witness ==
    /\ Decoded(\h5FC8)
    /\ last.op = OP("OP_DBF")
    /\ cpu.pc = program_start

(***************************************************************************)
(* Conditional branches under Spec: the tag the decoder gives a Bcc word   *)
(* against the condition m68k_execute_branches tests for it.               *)
(***************************************************************************)

\* the last call was a step that executed a Bcc word (condition field 2..15)
SteppedBcc ==
    /\ Executed
    /\ BitAnd(last.opcode, \hF000) = \h6000
    /\ Shr(last.opcode, 8) % 16 >= 2

\* C21: for every Bcc word 0x6cXX with c in 2..15 the tag of the decoder
\* names the condition c that m68k_execute_branches tests for the word:
\* the tag is the mnemonic of c (0x67XX is BEQ) and the branch is taken
\* exactly when the 68000 condition c holds of the flags.
C21_TagNamesTestedCondition ==
    LET mnemonic == << "OP_BHI", "OP_BLS", "OP_BCC", "OP_BCS", "OP_BNE",
                       "OP_BEQ", "OP_BVC", "OP_BVS", "OP_BPL", "OP_BMI",
                       "OP_BGE", "OP_BLT", "OP_BGT", "OP_BLE" >>
        c == Shr(last.opcode, 8) % 16
    IN  SteppedBcc =>
            /\ last.op = OP(mnemonic[c - 1])
            /\ (cpu.branch_taken = pre.cpu.branch_taken + 1) =
                   StandardCondition(c, m68k_get_flag(pre.cpu, SR_NEGATIVE),
                                        m68k_get_flag(pre.cpu, SR_ZERO),
                                        m68k_get_flag(pre.cpu, SR_OVERFLOW),
                                        m68k_get_flag(pre.cpu, SR_CARRY))

\* the word 0x6700 was tagged BGT and stepped over with the flags of
\* "greater than" (Z clear, N equal to V): the tagged condition held, the
\* tested condition 7 (Z set) did not, and the branch was not taken
C21_BeqTaggedBgt ==
    /\ SteppedBcc
    /\ last.opcode = \h6700
    /\ last.op = OP("OP_BGT")
    /\ ~m68k_get_flag(pre.cpu, SR_ZERO)
    /\ m68k_get_flag(pre.cpu, SR_NEGATIVE) = m68k_get_flag(pre.cpu, SR_OVERFLOW)
    /\ cpu.branch_taken = pre.cpu.branch_taken
    /\ cpu.branch_count = pre.cpu.branch_count + 1

(***************************************************************************)
(* m68k_addressing.c: the effective-address resolvers.  mode and reg are   *)
(* the two 3-bit fields of an operand specifier, size an OperandSize.      *)
(***************************************************************************)
\* m68k_get_ea_value: [cpu, val]
m68k_get_ea_value(c, mem, mode, reg, size) ==
    CASE mode = 0 -> [cpu |-> c, val |-> c.d[reg]]
      [] mode = 1 -> [cpu |-> c, val |-> c.a[reg]]
      [] mode = 2 -> m68k_read_memory(c, mem, c.a[reg], size)
      [] mode = 3 ->
           m68k_read_memory(SetA(c, reg, Add32(c.a[reg], size)), mem, c.a[reg], size)
      [] mode = 4 ->
           LET c1 == SetA(c, reg, Sub32(c.a[reg], size))
           IN  m68k_read_memory(c1, mem, c1.a[reg], size)
      [] mode = 5 ->
           LET f == m68k_fetch_word(c, mem)
           IN  m68k_read_memory(f.cpu, mem, Add32(f.cpu.a[reg], SInt16(f.val)), size)
      [] mode = 6 ->
           LET f == m68k_fetch_word(c, mem)
               ext == f.val
               disp == SInt8(ext % 256)
               idx_reg == Shr(ext, 12) % 8
               is_addr == Shr(ext, 15) % 2 = 1
               full == IF is_addr THEN f.cpu.a[idx_reg] ELSE f.cpu.d[idx_reg]
               index == IF BitAnd(ext, \h0800) = 0 THEN SInt16(full) ELSE full
           IN  m68k_read_memory(f.cpu, mem,
                                Add32(Add32(f.cpu.a[reg], disp), index), size)
      [] mode = 7 /\ reg = 0 ->
           LET f == m68k_fetch_word(c, mem)
           IN  m68k_read_memory(f.cpu, mem, SInt16(f.val), size)
      [] mode = 7 /\ reg = 1 ->
           LET f == m68k_fetch_long(c, mem)
           IN  m68k_read_memory(f.cpu, mem, f.val, size)
      [] mode = 7 /\ reg = 2 ->
           LET f == m68k_fetch_word(c, mem)
           IN  m68k_read_memory(f.cpu, mem, Add32(c.pc, SInt16(f.val)), size)
      [] mode = 7 /\ reg = 4 ->
           IF size = SIZE_LONG THEN m68k_fetch_long(c, mem) ELSE m68k_fetch_word(c, mem)
      [] OTHER -> [cpu |-> c, val |-> 0]

\* m68k_set_ea_value with a data register replaced whole whatever the size
m68k_set_ea_value_whole(c, mem, mode, reg, value, size) ==
    [cpu |-> SetD(c, reg, value), memory |-> mem]

\* m68k_set_ea_value: [cpu, memory]
m68k_set_ea_value(c, mem, mode, reg, value, size) ==
    CASE mode = 0 ->
           [cpu |-> SetD(c, reg,
                         IF size = SIZE_BYTE
                         THEN (c.d[reg] - (c.d[reg] % W8)) + (value % W8)
                         ELSE IF size = SIZE_WORD
                         THEN (c.d[reg] - (c.d[reg] % W16)) + (value % W16)
                         ELSE value),
            memory |-> mem]
      [] mode = 1 -> [cpu |-> SetA(c, reg, value), memory |-> mem]
      [] mode = 2 -> m68k_write_memory(c, mem, c.a[reg], value, size)
      [] mode = 3 ->
           LET w == m68k_write_memory(c, mem, c.a[reg], value, size)
           IN  [cpu |-> SetA(w.cpu, reg, Add32(w.cpu.a[reg], size)),
                memory |-> w.memory]
      [] mode = 4 ->
           LET c1 == SetA(c, reg, Sub32(c.a[reg], size))
           IN  m68k_write_memory(c1, mem, c1.a[reg], value, size)
      [] mode = 5 ->
           LET f == m68k_fetch_word(c, mem)
           IN  m68k_write_memory(f.cpu, mem, Add32(f.cpu.a[reg], SInt16(f.val)),
                                 value, size)
      [] mode = 7 /\ reg = 0 ->
           LET f == m68k_fetch_word(c, mem)
           IN  m68k_write_memory(f.cpu, mem, SInt16(f.val), value, size)
      [] mode = 7 /\ reg = 1 ->
           LET f == m68k_fetch_long(c, mem)
           IN  m68k_write_memory(f.cpu, mem, f.val, value, size)
      [] OTHER -> [cpu |-> c, memory |-> mem]

\* m68k_execute_cmpm: both operands are read, then both address registers
\* are advanced, then the flags of dst - src are set
m68k_execute_cmpm(c, mem, opcode) ==
    LET reg_src == opcode % 8
        reg_dst == Shr(opcode, 9) % 8
        size == 2 ^ (Shr(opcode, 6) % 4)
        src == m68k_read_memory(c, mem, c.a[reg_src], size)
        dst == m68k_read_memory(src.cpu, mem, src.cpu.a[reg_dst], size)
        c1 == SetA(dst.cpu, reg_src, Add32(dst.cpu.a[reg_src], size))
        c2 == SetA(c1, reg_dst, Add32(c1.a[reg_dst], size))
    IN  [cpu |-> m68k_set_flags_sub(c2, src.val, dst.val, Sub32(dst.val, src.val), size),
         memory |-> mem]

\* a zero flag that follows the result byte: set when it is zero
BcdZero_following(c, result) == m68k_set_flag(c, SR_ZERO, result = 0)

\* if (result != 0) m68k_set_flag(cpu, SR_ZERO, false): the end of each of
\* the three BCD cases
BcdZero(c, result) ==
    IF result # 0 THEN m68k_set_flag(c, SR_ZERO, FALSE) ELSE c

\* m68k_execute_bcd: the processor after ABCD, SBCD or NBCD on the low bytes
\* of d[reg_src] and d[reg_dst]
m68k_execute_bcd(c, op, opcode) ==
    LET reg_src == opcode % 8
        reg_dst == Shr(opcode, 9) % 8
        src == c.d[reg_src] % W8
        dst == c.d[reg_dst] % W8
        extend == IF m68k_get_flag(c, SR_EXTEND) THEN 1 ELSE 0
        done(result, carry) ==
            LET c1 == SetD(c, reg_dst, (c.d[reg_dst] - dst) + result)
                c2 == m68k_set_flag(c1, SR_CARRY, carry)
                c3 == m68k_set_flag(c2, SR_EXTEND, carry)
            IN  BcdZero(c3, result)
        subtract(from_low, from_high) ==
            LET low0 == from_low - extend
                low == IF low0 < 0 THEN low0 - 6 ELSE low0
                high0 == from_high - (IF low0 < 0 THEN 1 ELSE 0)
                high == IF high0 < 0 THEN high0 - 6 ELSE high0
            IN  done((high % 16) * 16 + (low % 16), high0 < 0)
    IN
    CASE op = OP("OP_ABCD") ->
           LET low0 == (dst % 16) + (src % 16) + extend
               low == IF low0 > 9 THEN low0 + 6 ELSE low0
               high0 == (dst \div 16) + (src \div 16) + (IF low0 > 9 THEN 1 ELSE 0)
               high == IF high0 > 9 THEN high0 + 6 ELSE high0
           IN  done((high % 16) * 16 + (low % 16), high0 > 9)
      [] op = OP("OP_SBCD") ->
           subtract((dst % 16) - (src % 16), (dst \div 16) - (src \div 16))
      [] op = OP("OP_NBCD") ->
           subtract(0 - (dst % 16), 0 - (dst \div 16))
      [] OTHER -> c

(***************************************************************************)
(* SpecEa: a handler resolves one operand.  The processor holds a register *)
(* file with set high bits, the pc stands on an extension word, and one    *)
(* call of a resolver or of the CMPM handler is applied to it.             *)
(***************************************************************************)
\* the register file: D0 = 0x12345678, D1 = 6, D7 = 0xFFFFFF80, A0 = 16,
\* A1 = 20, A7 = stack_top; the extension word at the pc is displacement +4
\* with word index D0, +2 with long index D1 or -2 with long index A7
InitEa ==
    /\ cpu \in { [Loaded EXCEPT
                    !.d = [i \in 0..7 |->
                              CASE i = 0 -> Make32(\h1234, \h5678)
                                [] i = 1 -> 6
                                [] i = 7 -> -128
                                [] OTHER -> 0],
                    !.a = [i \in 0..7 |->
                              CASE i = 0 -> 16
                                [] i = 1 -> 20
                                [] i = 7 -> stack_top
                                [] OTHER -> 0],
                    !.sr = sr] : sr \in { 0, SR_ZERO } }
    /\ memory \in { [Image(<< ext, \h1122, \h3344 >>) EXCEPT
                        ![16] = \hC1, ![17] = \hC2, ![20] = \hC1, ![21] = \hD2]
                    : ext \in { \h0004, \h1802, \hF8FE } }
    /\ breakpoints = << >>
    /\ last = Call("init")
    /\ pre = [cpu |-> cpu, memory |-> memory, breakpoints |-> breakpoints]

\* a read through an operand specifier (mode, reg) with register 0, 1 or 7
GetEaValue ==
    /\ last.call = "init"
    /\ \E mode \in 0..7, reg \in { 0, 1, 7 }, size \in Sizes :
         \E r \in { m68k_get_ea_value(cpu, memory, mode, reg, size) } :
           /\ cpu' = r.cpu
           /\ last' = [Call("get_ea_value") EXCEPT
                           !.opcode = mode * 8 + reg, !.size = size, !.val = r.val]
    /\ pre' = Snapshot
    /\ UNCHANGED << memory, breakpoints >>

\* a write of 0x000000AB or 0xFEDCBA98 through an operand specifier
SetEaValue ==
    /\ last.call = "init"
    /\ \E mode \in 0..7, reg \in { 0, 1, 7 }, size \in Sizes,
          value \in { \h00AB, Make32(\hFEDC, \hBA98) } :
         \E r \in { m68k_set_ea_value(cpu, memory, mode, reg, value, size) } :
           /\ cpu' = r.cpu
           /\ memory' = r.memory
           /\ last' = [Call("set_ea_value") EXCEPT
                           !.opcode = mode * 8 + reg, !.size = size, !.val = value]
    /\ pre' = Snapshot
    /\ UNCHANGED breakpoints

\* CMPM (A0)+,(A1)+ and CMPM (A1)+,(A7)+ at sizes byte, word and long
ExecuteCmpm ==
    /\ last.call = "init"
    /\ \E opcode \in { \hB308, \hB348, \hB388, \hBF09, \hBF49, \hBF89 } :
         \E r \in { m68k_execute_cmpm(cpu, memory, opcode) } :
           /\ cpu' = r.cpu
           /\ memory' = r.memory
           /\ last' = [Call("execute_cmpm") EXCEPT !.opcode = opcode]
    /\ pre' = Snapshot
    /\ UNCHANGED breakpoints

\* ABCD D1,D0, SBCD D1,D0 or NBCD on the register its word selects, with
\* the low bytes of the operands and the extend flag drawn from every
\* pairing of the nibbles 0, 1, 5, 9, 10 and 15
ExecuteBcd ==
    /\ last.call = "init"
    /\ \E opcode \in { \hC101, \h8101, \h4800 },
          sl \in { 0, 1, 5, 9, 10, 15 }, sh \in { 0, 1, 5, 9, 10, 15 },
          dl \in { 0, 1, 5, 9, 10, 15 }, dh \in { 0, 1, 5, 9, 10, 15 },
          x \in BOOLEAN :
         LET rs == opcode % 8
             rd == Shr(opcode, 9) % 8
             c1 == SetD(cpu, rs, (cpu.d[rs] - (cpu.d[rs] % W8)) + sh * 16 + sl)
             c2 == SetD(c1, rd, (c1.d[rd] - (c1.d[rd] % W8)) + dh * 16 + dl)
             c3 == m68k_set_flag(c2, SR_EXTEND, x)
             op == m68k_decode_instruction(opcode)
         IN  /\ cpu' = m68k_execute_bcd(c3, op, opcode)
             /\ last' = [Call("execute_bcd") EXCEPT !.opcode = opcode, !.op = op]
             /\ pre' = [Snapshot EXCEPT !.cpu = c3]
    /\ UNCHANGED << memory, breakpoints >>

NextEa ==
    \/ GetEaValue
    \/ SetEaValue
    \/ ExecuteCmpm
    \/ ExecuteBcd

SpecEa == InitEa /\ [][NextEa]_vars

\* the last call was a resolver call with operand mode m
Resolved(m) ==
    /\ last.call \in { "get_ea_value", "set_ea_value" }
    /\ Shr(last.opcode, 3) = m

\* C22: for m68k_get_ea_value and for m68k_set_ea_value, resolving mode
\* (d16,An) or mode (d8,An,Xn) consumes exactly one extension word: the pc
\* after the call is the pc before plus 2, and the fetch of that word was
\* counted as a cycle.
C22_OneExtensionWord ==
    (Resolved(5) \/ Resolved(6)) =>
        /\ cpu.pc = Add32(pre.cpu.pc, 2)
        /\ cpu.cycle_count >= pre.cpu.cycle_count + 1

\* m68k_set_ea_value was called in mode (d8,An,Xn) with A0 and a byte
\* value: the pc stayed on the extension word and nothing was stored
C22_SetIndexedIgnored ==
    /\ last.call = "set_ea_value"
    /\ last.opcode = 6 * 8 + 0
    /\ last.size = SIZE_BYTE
    /\ cpu = pre.cpu
    /\ memory = pre.memory

(***************************************************************************)
(* CMPM: the handler m68k_execute_cmpm under SpecEa, and a step over a     *)
(* CMPM word under Spec.                                                   *)
(***************************************************************************)

\* C23: CMPM with source Ay and destination Ax (two registers) increases Ay
\* and Ax by the operand size whatever the comparison gives and writes no
\* memory and no data register, when a step executes its opcode word.
C23_CmpmByStep ==
    LET size == 2 ^ (Shr(last.opcode, 6) % 4)
        y == last.opcode % 8
        x == Shr(last.opcode, 9) % 8
    IN
    (Executed /\ last.op = OP("OP_CMPM")) =>
        /\ cpu.a = [pre.cpu.a EXCEPT ![y] = Add32(pre.cpu.a[y], size),
                                     ![x] = Add32(pre.cpu.a[x], size)]
        /\ cpu.d = pre.cpu.d
        /\ memory = pre.memory

\* a step fetched CMPM.B (A7)+,(A0)+, handed it to the special family, and
\* left A7 and A0 where they were
C23_StepLeavesRegisters ==
    /\ Executed
    /\ last.opcode = \hB10F
    /\ last.op = OP("OP_CMPM")
    /\ Family(last.op) = "special"
    /\ cpu.a = pre.cpu.a
    /\ cpu.pc = Add32(pre.cpu.pc, 2)

(***************************************************************************)
(* The BCD handler under SpecEa.                                           *)
(***************************************************************************)

\* C24: ABCD with destination low byte 0x09, source low byte 0x01 and X
\* clear gives the low byte 0x10 with C and X false, and a zero flag that
\* was true before the instruction is still true after it.
C24_AbcdNineOne ==
    (/\ last.call = "execute_bcd"
     /\ last.op = OP("OP_ABCD")
     /\ pre.cpu.d[0] % W8 = 9
     /\ pre.cpu.d[1] % W8 = 1
     /\ ~m68k_get_flag(pre.cpu, SR_EXTEND)) =>
        /\ cpu.d[0] % W8 = 16
        /\ ~m68k_get_flag(cpu, SR_CARRY)
        /\ ~m68k_get_flag(cpu, SR_EXTEND)
        /\ m68k_get_flag(pre.cpu, SR_ZERO) => m68k_get_flag(cpu, SR_ZERO)

\* ABCD D1,D0 added 0x01 to 0x09 with X clear and Z set: the byte is 0x10,
\* C and X are false, and Z has been cleared
C24_ZeroCleared ==
    /\ last.call = "execute_bcd"
    /\ last.opcode = \hC101
    /\ pre.cpu.d[0] % W8 = 9
    /\ pre.cpu.d[1] % W8 = 1
    /\ ~m68k_get_flag(pre.cpu, SR_EXTEND)
    /\ m68k_get_flag(pre.cpu, SR_ZERO)
    /\ cpu.d[0] % W8 = 16
    /\ ~m68k_get_flag(cpu, SR_CARRY)
    /\ ~m68k_get_flag(cpu, SR_EXTEND)
    /\ ~m68k_get_flag(cpu, SR_ZERO)

\* C26: ABCD, SBCD and NBCD never set the zero flag: for all operand bytes
\* and prior flags, Z after the operation is false if the result byte is
\* not zero and is Z before the operation if the result byte is zero.
C26_BcdNeverSetsZero ==
    last.call = "execute_bcd" =>
        LET result == cpu.d[Shr(last.opcode, 9) % 8] % W8
        IN  m68k_get_flag(cpu, SR_ZERO) =
                (result = 0 /\ m68k_get_flag(pre.cpu, SR_ZERO))

\* SBCD D1,D0 subtracted 0x15 from 0x15 with X and Z clear: the result byte
\* is zero and Z is still clear
C26_Witness ==
    /\ last.call = "execute_bcd"
    /\ last.op = OP("OP_SBCD")
    /\ pre.cpu.d[0] % W8 = 21
    /\ pre.cpu.d[1] % W8 = 21
    /\ ~m68k_get_flag(pre.cpu, SR_EXTEND)
    /\ ~m68k_get_flag(pre.cpu, SR_ZERO)
    /\ cpu.d[0] % W8 = 0
    /\ ~m68k_get_flag(cpu, SR_ZERO)

(***************************************************************************)
(* SpecLoop: a driver that only steps (and resumes), every program of      *)
(* Programs, with the step taken whenever it stays possible.               *)
(***************************************************************************)
NextLoop ==
    \/ Step(MaxCycles)
    \/ Resume

SpecLoop == Init /\ [][NextLoop]_vars /\ WF_vars(Step(MaxCycles))

\* the program that ends in a DBF branching back to itself, and the address
\* of that DBF word
LoopProgram == << \h7001, \h50C8, \hFFFC, \h51C8, \hFFFC, \h4E71 >>
LoopAt == program_start + 6

\* the last call was a step that executed a DBcc word whose displacement
\* word is inside the buffer
SteppedDbcc ==
    /\ Executed
    /\ BitAnd(last.opcode, \hF0F8) = \h50C8
    /\ pre.cpu.pc + 3 < MemSize

\* C25: a step over DBcc Dn with a true condition leaves Dn unchanged and
\* falls through past the displacement word; with a false condition it
\* decrements the low 16 bits of Dn (bits 31-16 kept) and branches unless
\* the counter became 0xFFFF.  A DBF that branches back to itself with
\* counter n in the low word is left after n + 1 executions with the
\* counter 0xFFFF.
C25_DbccProtocol ==
    /\ [](SteppedDbcc =>
            LET reg == last.opcode % 8
                before == pre.cpu.d[reg]
                counter == ((before % W16) + W16 - 1) % W16
                past == Add32(pre.cpu.pc, 4)
                displacement ==
                    SInt16(pre.memory[pre.cpu.pc + 2] * 256 + pre.memory[pre.cpu.pc + 3])
            IN  IF StandardCondition(Shr(last.opcode, 8) % 16,
                                     m68k_get_flag(pre.cpu, SR_NEGATIVE),
                                     m68k_get_flag(pre.cpu, SR_ZERO),
                                     m68k_get_flag(pre.cpu, SR_OVERFLOW),
                                     m68k_get_flag(pre.cpu, SR_CARRY))
                THEN cpu.d = pre.cpu.d /\ cpu.pc = past
                ELSE /\ cpu.d = [pre.cpu.d EXCEPT ![reg] = (before - (before % W16)) + counter]
                     /\ cpu.pc = IF counter = 65535 THEN past
                                 ELSE Add32(past, displacement))
    /\ \A n \in 0..1 :
         (/\ memory = Image(LoopProgram)
          /\ cpu.pc = LoopAt
          /\ ~cpu.halted
          /\ cpu.d[0] = n
          /\ cpu.cycle_count = 5 - 2 * n)
         ~> (/\ cpu.pc = LoopAt + 4
             /\ cpu.d[0] = 65535
             /\ cpu.cycle_count = 7)

\* the DBF of the loop was executed with counter 0 after one pass with
\* counter 1: it fell through with D0 = 0x0000FFFF, seven fetches after the
\* start
C25_Witness ==
    /\ SteppedDbcc
    /\ last.opcode = \h51C8
    /\ pre.cpu.pc = LoopAt
    /\ pre.cpu.d[0] = 0
    /\ cpu.d[0] = 65535
    /\ cpu.pc = LoopAt + 4
    /\ cpu.cycle_count = 7

(***************************************************************************)
(* The resolvers under SpecEa: register-direct and stepping modes.         *)
(***************************************************************************)

\* C27: m68k_set_ea_value in data-register-direct mode with size byte or
\* word replaces only the low 8 or 16 bits of Dn; the high bits of Dn, all
\* other registers, the pc and memory stay as they were.
C27_SetDataRegister ==
    (/\ last.call = "set_ea_value"
     /\ Shr(last.opcode, 3) = 0
     /\ last.size \in { SIZE_BYTE, SIZE_WORD }) =>
        LET reg == last.opcode % 8
            width == IF last.size = SIZE_BYTE THEN W8 ELSE W16
        IN  /\ cpu.d[reg] % width = last.val % width
            /\ cpu.d[reg] - (cpu.d[reg] % width)
                   = pre.cpu.d[reg] - (pre.cpu.d[reg] % width)
            /\ cpu = [pre.cpu EXCEPT !.d[reg] = cpu.d[reg]]
            /\ memory = pre.memory

\* the byte 0x98 of 0xFEDCBA98 was written to D0 = 0x12345678, which became
\* 0x12345698
C27_Witness ==
    /\ last.call = "set_ea_value"
    /\ last.opcode = 0
    /\ last.size = SIZE_BYTE
    /\ last.val = Make32(\hFEDC, \hBA98)
    /\ pre.cpu.d[0] = Make32(\h1234, \h5678)
    /\ cpu.d[0] = Make32(\h1234, \h5698)

\* C28: m68k_get_ea_value in register-direct mode returns the register
\* masked to the operand size: at most 0xFF for size byte and at most
\* 0xFFFF for size word, whatever the high bits of the register hold.
C28_GetRegisterMasked ==
    (/\ last.call = "get_ea_value"
     /\ Shr(last.opcode, 3) \in { 0, 1 }) =>
        /\ last.size = SIZE_BYTE => last.val \in 0 .. (W8 - 1)
        /\ last.size = SIZE_WORD => last.val \in 0 .. (W16 - 1)

\* a byte read of D0 = 0x12345678 returned all 32 bits
C28_ByteReadUnmasked ==
    /\ last.call = "get_ea_value"
    /\ last.opcode = 0
    /\ last.size = SIZE_BYTE
    /\ pre.cpu.d[0] = Make32(\h1234, \h5678)
    /\ last.val = Make32(\h1234, \h5678)

\* C29: in post-increment and pre-decrement mode the address register
\* changes by the operand size, except that a byte access through A7
\* changes A7 by 2; for the read and for the write resolver.
C29_StepBySize ==
    (Resolved(3) \/ Resolved(4)) =>
        LET reg == last.opcode % 8
            step == IF reg = 7 /\ last.size = SIZE_BYTE THEN 2 ELSE last.size
        IN  cpu.a = [pre.cpu.a EXCEPT
                        ![reg] = IF Resolved(3) THEN Add32(pre.cpu.a[reg], step)
                                 ELSE Sub32(pre.cpu.a[reg], step)]

\* a byte was written through -(A7) and A7 went down by 1, from the even
\* stack_top to an odd address
C29_OddStackPointer ==
    /\ last.call = "set_ea_value"
    /\ last.opcode = 4 * 8 + 7
    /\ last.size = SIZE_BYTE
    /\ pre.cpu.a[7] = stack_top
    /\ cpu.a[7] = stack_top - 1
    /\ memory[stack_top - 1] = \hAB

(***************************************************************************)
(* SpecShift: the shift/rotate case of m68k_execute_instruction applied to *)
(* one register value with one extend flag.                                *)
(***************************************************************************)
\* every data register holds the value shifted (the case shifts the
\* register its count field numbers); X is set or clear
InitShift ==
    /\ cpu \in { m68k_set_flag([Loaded EXCEPT !.d = [i \in 0..7 |-> value]],
                               SR_EXTEND, x) :
                 value \in { Make32(\h8000, \h0001), Make32(\h1234, \h5678),
                             Make32(\hA5C3, \h0FF0), Make32(\h00FF, \hFF00) },
                 x \in BOOLEAN }
    /\ memory = Image(TestProgram)
    /\ breakpoints = << >>
    /\ last = Call("init")
    /\ pre = [cpu |-> cpu, memory |-> memory, breakpoints |-> breakpoints]

\* one of the eight operations on a long operand with count field 0..7
ExecuteShift ==
    /\ last.call = "init"
    /\ \E op \in TagRange("OP_ASL", "OP_ROXR"), field \in 0..7 :
         \E r \in { m68k_execute_instruction(cpu, memory, op, \hE080 + field * 512) } :
           /\ cpu' = r.cpu
           /\ memory' = r.memory
           /\ last' = [Call("execute_instruction") EXCEPT
                           !.op = op, !.opcode = \hE080 + field * 512]
    /\ pre' = Snapshot
    /\ UNCHANGED breakpoints

NextShift == ExecuteShift

SpecShift == InitShift /\ [][NextShift]_vars

\* C30: a shift or rotate with count field c (0 meaning 8) performs exactly
\* c single-bit shifts, between 1 and 8: bit j of the result is the bit of
\* the operand c places away, or the bit shifted in by the iteration that
\* filled place j; the final C and X are the bit shifted out by the last
\* iteration; for ROXL and ROXR iteration 1 shifts in the X found and
\* iteration i + 1 the bit shifted out by iteration i.
C30_ShiftCount ==
    (last.call = "execute_instruction"
     /\ last.op \in TagRange("OP_ASL", "OP_ROXR")) =>
        LET field == Shr(last.opcode, 9) % 8
            count == IF field = 0 THEN 8 ELSE field
            operand == pre.cpu.d[field]
            left == last.op \in LeftShifts
            Bit(v, j) == IF j < 16 THEN Shr(Lo16(v), j) % 2
                         ELSE Shr(Hi16(v), j - 16) % 2
            out(i) == IF left THEN Bit(operand, 32 - i) ELSE Bit(operand, i - 1)
            in(i) == CASE last.op \in { OP("OP_ROL"), OP("OP_ROR") } -> out(i)
                       [] last.op \in { OP("OP_ROXL"), OP("OP_ROXR") } ->
                            IF i = 1
                            THEN (IF m68k_get_flag(pre.cpu, SR_EXTEND) THEN 1 ELSE 0)
                            ELSE out(i - 1)
                       [] last.op = OP("OP_ASR") -> Bit(operand, 31)
                       [] OTHER -> 0
        IN  /\ count \in 1..8
            /\ \A j \in 0..31 :
                 Bit(cpu.d[field], j) =
                     IF left
                     THEN (IF j >= count THEN Bit(operand, j - count) ELSE in(count - j))
                     ELSE (IF j <= 31 - count THEN Bit(operand, j + count)
                           ELSE in(count - (31 - j)))
            /\ m68k_get_flag(cpu, SR_CARRY) = (out(count) = 1)
            /\ m68k_get_flag(cpu, SR_EXTEND) = (out(count) = 1)

\* ROXL with count field 3 on 0xA5C30FF0 with X set: the result is
\* 0x2E187F86 (X, then the bits 1 and 0 shifted out by iterations 1 and 2,
\* came in at the bottom) and C = X = 1, the bit shifted out third
C30_Witness ==
    /\ last.call = "execute_instruction"
    /\ last.op = OP("OP_ROXL")
    /\ Shr(last.opcode, 9) % 8 = 3
    /\ pre.cpu.d[3] = Make32(\hA5C3, \h0FF0)
    /\ m68k_get_flag(pre.cpu, SR_EXTEND)
    /\ cpu.d[3] = Make32(\h2E18, \h7F86)
    /\ m68k_get_flag(cpu, SR_CARRY)
    /\ m68k_get_flag(cpu, SR_EXTEND)

(***************************************************************************)
(* m68k_addressing.c: MOVEM.                                               *)
(***************************************************************************)
RECURSIVE MovemLoop(_, _, _, _, _, _, _)
\* the two for loops of m68k_execute_movem from register i on (0..7 are
\* D0..D7, 8..15 are A0..A7): [cpu, memory, address]
MovemLoop(c, mem, direction, size, register_list, address, i) ==
    IF i = 16 THEN [cpu |-> c, memory |-> mem, address |-> address]
    ELSE IF Shr(register_list, i) % 2 = 0
    THEN MovemLoop(c, mem, direction, size, register_list, address, i + 1)
    ELSE LET next == Add32(address, IF size = SIZE_LONG THEN 4 ELSE 2)
         IN  IF direction = 0
             THEN LET w == m68k_write_memory(c, mem, address,
                                             IF i < 8 THEN c.d[i] ELSE c.a[i - 8], size)
                  IN  MovemLoop(w.cpu, w.memory, direction, size, register_list,
                                next, i + 1)
             ELSE LET r == m68k_read_memory(c, mem, address, size)
                      c1 == IF i < 8 THEN SetD(r.cpu, i, r.val)
                            ELSE SetA(r.cpu, i - 8, r.val)
                  IN  MovemLoop(c1, mem, direction, size, register_list, next, i + 1)

\* m68k_execute_movem: [cpu, memory]
m68k_execute_movem(c, mem, opcode) ==
    LET list == m68k_fetch_word(c, mem)
        direction == Shr(opcode, 10) % 2
        mode == Shr(opcode, 3) % 8
        reg == opcode % 8
        size == IF Shr(opcode, 6) % 2 = 1 THEN SIZE_LONG ELSE SIZE_WORD
        ea == IF mode = 2 \/ mode = 4
              THEN [cpu |-> list.cpu, val |-> list.cpu.a[reg]]
              ELSE IF mode = 5
              THEN LET f == m68k_fetch_word(list.cpu, mem)
                   IN  [cpu |-> f.cpu, val |-> Add32(f.cpu.a[reg], SInt16(f.val))]
              ELSE [cpu |-> list.cpu, val |-> 0]
        l == MovemLoop(ea.cpu, mem, direction, size, list.val, ea.val, 0)
    IN  [cpu |-> IF mode = 2 \/ mode = 4 THEN SetA(l.cpu, reg, l.address) ELSE l.cpu,
         memory |-> l.memory]

(***************************************************************************)
(* SpecMovem: two MOVEM calls in a row.  The pc stands on two copies of a  *)
(* register list, D0..D7 hold 0x00D0xxxx patterns, A0..A6 point into the   *)
(* buffer and A7 is the stack top.                                         *)
(***************************************************************************)
InitMovem ==
    /\ cpu = [Loaded EXCEPT !.d = [i \in 0..7 |-> Make32(\h00D0 + i, \h1111 * (i + 1))],
                            !.a = [i \in 0..7 |-> IF i = 7 THEN stack_top ELSE 16]]
    /\ memory \in { Image(<< list, list >>) :
                      list \in { \h0001, \h0003, \h0102, \h8001 } }
    /\ breakpoints = << >>
    /\ last = Call("init")
    /\ pre = [cpu |-> cpu, memory |-> memory, breakpoints |-> breakpoints]

\* MOVEM list,-(A7) and MOVEM (A7)+,list at sizes long and word, MOVEM.L
\* list,(A0) and MOVEM.L (A0),list, while a register list is left at the pc;
\* the record keeps the word of the call before
ExecuteMovem ==
    /\ cpu.pc < program_start + 4
    /\ \E opcode \in { \h48E7, \h4CDF, \h48A7, \h4C9F, \h48D0, \h4CD0 } :
         \E r \in { m68k_execute_movem(cpu, memory, opcode) } :
           /\ cpu' = r.cpu
           /\ memory' = r.memory
           /\ last' = [Call("execute_movem") EXCEPT
                           !.opcode = opcode, !.addr = last.opcode]
    /\ pre' = Snapshot
    /\ UNCHANGED breakpoints

NextMovem == ExecuteMovem

SpecMovem == InitMovem /\ [][NextMovem]_vars

\* C31: MOVEM.L list,-(A7) followed by MOVEM.L (A7)+,list over the same
\* list restores every listed register and leaves A7 at its original value
\* (stack in bounds), and a MOVEM in a mode without auto-update, (An),
\* does not change An.
C31_MovemSymmetric ==
    /\ (last.call = "execute_movem" /\ last.addr = \h48E7 /\ last.opcode = \h4CDF) =>
           /\ cpu.d = [i \in 0..7 |-> Make32(\h00D0 + i, \h1111 * (i + 1))]
           /\ cpu.a = [i \in 0..7 |-> IF i = 7 THEN stack_top ELSE 16]
    /\ (last.call = "execute_movem" /\ last.opcode \in { \h48D0, \h4CD0 }) =>
           cpu.a[0] = pre.cpu.a[0]

\* MOVEM.L D0,-(A7) stored D0 at the stack top and moved A7 up by 4, then
\* MOVEM.L (A7)+,D0 loaded D0 from address 0 and left A7 four above the
\* stack top
C31_NotRestored ==
    /\ last.call = "execute_movem"
    /\ last.addr = \h48E7
    /\ last.opcode = \h4CDF
    /\ memory[program_start + 1] = 1
    /\ cpu.d[0] = 0
    /\ cpu.a[7] = stack_top + 4
    /\ memory[stack_top + 3] = \h11

(***************************************************************************)
(* The sized accessors under SpecMem: byte order and round trip.           *)
(***************************************************************************)

\* C32: for size byte, word or long and an address with every accessed
\* byte in bounds, m68k_write_memory(addr, v, size) followed by
\* m68k_read_memory(addr, size) returns v masked to the size, the most
\* significant byte of the masked value is at the lowest address, and the
\* bytes outside [addr, addr + size) are unchanged.
C32_BigEndianRoundTrip ==
    (last.call = "write_memory" /\ ~OutOfBounds(last.addr, last.size)) =>
        LET masked == CASE last.size = SIZE_BYTE -> last.val % W8
                        [] last.size = SIZE_WORD -> last.val % W16
                        [] OTHER -> last.val
            top == CASE last.size = SIZE_BYTE -> last.val % W8
                     [] last.size = SIZE_WORD -> (last.val % W16) \div 256
                     [] OTHER -> Hi16(last.val) \div 256
        IN  /\ m68k_read_memory(cpu, memory, last.addr, last.size).val = masked
            /\ memory[last.addr] = top
            /\ \A x \in DOMAIN memory :
                 (x < last.addr \/ x >= last.addr + last.size) =>
                     memory[x] = pre.memory[x]

\* the long 0xA1B2C3D4 was written at the last four bytes of the buffer:
\* they hold A1, B2, C3, D4 in this order
C32_Witness ==
    /\ last.call = "write_memory"
    /\ last.addr = MemSize - 4
    /\ last.size = SIZE_LONG
    /\ memory[MemSize - 4] = \hA1
    /\ memory[MemSize - 3] = \hB2
    /\ memory[MemSize - 2] = \hC3
    /\ memory[MemSize - 1] = \hD4

(***************************************************************************)
(* Branch displacement words under Spec.                                   *)
(***************************************************************************)

\* C33: a Bcc whose 8-bit displacement field is zero owns a displacement
\* extension word, consumed whether or not the branch is taken: after a
\* Bcc.W at address A that is not taken the pc is A + 4, so the next word
\* fetched as an instruction is never the displacement word at A + 2.
C33_DisplacementWordConsumed ==
    (/\ SteppedBcc
     /\ last.opcode % 256 = 0
     /\ cpu.branch_taken = pre.cpu.branch_taken) =>
        cpu.pc = Add32(pre.cpu.pc, 4)

\* the BEQ.W of the test program was not taken, and the next step fetched
\* its displacement word 0x0002 at A + 2 and decoded it as an instruction
C33_DisplacementExecuted ==
    /\ Executed
    /\ pre.cpu.pc = program_start + 14
    /\ pre.memory[program_start + 12] = \h67
    /\ pre.memory[program_start + 13] = 0
    /\ last.opcode = \h0002
    /\ last.op = OP("OP_ORI")
    /\ pre.cpu.branch_count = 1
    /\ pre.cpu.branch_taken = 0

\* C34: for BRA, BSR and a taken Bcc with a 16-bit displacement word the
\* full signed 16-bit displacement d is added to the pc: the target differs
\* from the base pc (the address after the opcode word, or after the
\* displacement word) by exactly d, without truncation to 8 bits.
C34_FullDisplacement ==
    (/\ Executed
     /\ BitAnd(last.opcode, \hF0FF) = \h6000
     /\ pre.cpu.pc + 3 < MemSize
     /\ cpu.branch_taken = pre.cpu.branch_taken + 1) =>
        LET d == SInt16(pre.memory[pre.cpu.pc + 2] * 256 + pre.memory[pre.cpu.pc + 3])
        IN  \/ cpu.pc = Add32(Add32(pre.cpu.pc, 2), d)
            \/ cpu.pc = Add32(Add32(pre.cpu.pc, 4), d)

\* BRA.W with the displacement word 0x0102 at the program start moved the
\* pc 2 past the displacement word: only the low byte 0x02 was added
C34_Truncated ==
    /\ Executed
    /\ last.opcode = \h6000
    /\ pre.cpu.pc = program_start
    /\ pre.memory[program_start + 2] = 1
    /\ pre.memory[program_start + 3] = 2
    /\ cpu.pc = program_start + 4 + 2
    /\ cpu.branch_taken = pre.cpu.branch_taken + 1

\* C35: a step on BSR (or JSR (An)) pushes the address of the instruction
\* after the call, and the step on RTS (0x4E75) at the end of a subroutine
\* that left the stack balanced sets the pc to that address and A7 to its
\* value before the call (stack addresses in bounds).
C35_CallReturn ==
    /\ (Executed /\ last.opcode = \h6102) =>
           /\ cpu.a[7] = Sub32(pre.cpu.a[7], 4)
           /\ m68k_read_memory(cpu, memory, cpu.a[7], SIZE_LONG).val
                  = Add32(pre.cpu.pc, 2)
    /\ (Executed /\ last.opcode = \h4E75 /\ pre.cpu.a[7] \in 0 .. (MemSize - 4)) =>
           /\ cpu.pc = m68k_read_memory(pre.cpu, pre.memory, pre.cpu.a[7], SIZE_LONG).val
           /\ cpu.a[7] = Add32(pre.cpu.a[7], 4)

\* BSR.S pushed the return address program_start + 2; the step on the RTS
\* of the subroutine was dispatched as a TRAP: the pc went on to the word
\* after the RTS and A7 still points at the return address
C35_RtsDoesNotReturn ==
    /\ Executed
    /\ last.opcode = \h4E75
    /\ last.op = OP("OP_TRAP")
    /\ pre.cpu.pc = program_start + 4
    /\ pre.cpu.a[7] = stack_top - 4
    /\ pre.memory[stack_top - 1] = program_start + 2
    /\ cpu.pc = program_start + 6
    /\ cpu.a[7] = stack_top - 4

(***************************************************************************)
(* Removing breakpoints under SpecBp.                                      *)
(***************************************************************************)

\* C36: after m68k_remove_breakpoint(A) or m68k_clear_breakpoints a step
\* at A does not halt because of a breakpoint, whatever add, enable and
\* remove calls came before (A may have been added more than once), and
\* num_breakpoints stays within 0..max_breakpoints.
C36_RemovedNeverHits ==
    /\ last.call = "remove_breakpoint" =>
           ~m68k_check_breakpoint(cpu, breakpoints, last.addr).hit
    /\ last.call = "clear_breakpoints" =>
           \A address \in BpAddrs : ~m68k_check_breakpoint(cpu, breakpoints, address).hit
    /\ Len(breakpoints) \in 0 .. cpu.max_breakpoints

\* the address program_start + 2 was added twice and removed once: one
\* enabled entry for it is left, and the step of the processor standing
\* there halts on it
C36_DuplicateSurvives ==
    /\ last.call = "remove_breakpoint"
    /\ last.addr = program_start + 2
    /\ Len(pre.breakpoints) = 2
    /\ \A i \in 1..2 : pre.breakpoints[i].address = program_start + 2
    /\ Len(breakpoints) = 1
    /\ breakpoints[1].address = program_start + 2
    /\ cpu.pc = program_start + 2
    /\ ~cpu.halted
    /\ m68k_execute_cycle(cpu, memory, breakpoints).hit
    /\ m68k_execute_cycle(cpu, memory, breakpoints).cpu.halted

\* C37: for valid packed-BCD bytes a (destination) and b (source), every
\* nibble 0..9, and X in {0, 1}: ABCD leaves decimal (a + b + X) mod 100 in
\* the destination low byte with C = X = (a + b + X >= 100); SBCD leaves
\* decimal (a - b - X) mod 100 with C = X = (a - b - X < 0); both keep bits
\* 31-8 of the destination register.
C37_DecimalArithmetic ==
    LET Valid(byte) == byte % 16 <= 9 /\ byte \div 16 <= 9
        Decimal(byte) == (byte \div 16) * 10 + (byte % 16)
        Packed(n) == (n \div 10) * 16 + (n % 10)
        a == pre.cpu.d[0] % W8
        b == pre.cpu.d[1] % W8
        x == IF m68k_get_flag(pre.cpu, SR_EXTEND) THEN 1 ELSE 0
        sum == Decimal(a) + Decimal(b) + x
        difference == Decimal(a) - Decimal(b) - x
        Result(n, carry) ==
            /\ cpu.d[0] % W8 = Packed(n % 100)
            /\ cpu.d[0] - (cpu.d[0] % W8) = pre.cpu.d[0] - a
            /\ m68k_get_flag(cpu, SR_CARRY) = carry
            /\ m68k_get_flag(cpu, SR_EXTEND) = carry
    IN  (last.call = "execute_bcd" /\ Valid(a) /\ Valid(b)) =>
            /\ last.op = OP("OP_ABCD") => Result(sum, sum >= 100)
            /\ last.op = OP("OP_SBCD") => Result(difference, difference < 0)

\* SBCD D1,D0 subtracted 0x59 and X = 1 from 0x15: the byte is 0x55 (15 -
\* 59 - 1 = -45, and 100 - 45 = 55) with C and X set, below the 0x123456
\* that D0 held before
C37_Witness ==
    /\ last.call = "execute_bcd"
    /\ last.op = OP("OP_SBCD")
    /\ pre.cpu.d[0] = Make32(\h1234, \h5615)
    /\ pre.cpu.d[1] % W8 = \h59
    /\ m68k_get_flag(pre.cpu, SR_EXTEND)
    /\ cpu.d[0] = Make32(\h1234, \h5655)
    /\ m68k_get_flag(cpu, SR_CARRY)
    /\ m68k_get_flag(cpu, SR_EXTEND)

====
